---- MODULE Spec2Model ----
(***************************************************************************)
(* QuickChain: forwarded-chain extraction engine.                          *)
(*                                                                         *)
(* A string is a sequence of one-character strings, so that every regular  *)
(* expression, trim, split and substring of the JavaScript source is       *)
(* computed character by character.  Dates are instants (positive          *)
(* integers); NullDate stands for JavaScript null and NaNDate for an       *)
(* Invalid Date object.  A nullable record is a sequence of length 0       *)
(* (null) or 1 (the record).                                               *)
(***************************************************************************)
EXTENDS Integers, Sequences, FiniteSets, TLC

VARIABLES pc, body, sourceFile, boundaries, calls, result,
          section, extracted, text, cleaned, parsed,
          emailsLeft, history,
          file, resolved,
          queue, isProcessing, currentFile, inflight, emailChain,
          submitted, fileEpoch, epoch, quiet, handed,
          chainOp, addedSince, sorted

\* The variables of repeated calls of the chain parser: the array the last
\* call built and the record of every call made.
callVars == <<emailsLeft, history>>

\* The variables of one call of parseMsgFile: the file handed over and
\* the list the promise resolved to.
msgVars == <<file, resolved>>

\* The variables of the application: the fields of its ProcessingQueue, the
\* files whose processor call is in flight, the Map of its EmailChain; and
\* what is remembered of the run: the number of files submitted, for every
\* file the number of clears performed before it was submitted, the number
\* of clears performed, whether no file was submitted since the last, and
\* the files passed to addFiles and those handed to the processor, each in
\* the order it happened.
appVars == <<queue, isProcessing, currentFile, inflight, emailChain,
             submitted, fileEpoch, epoch, quiet, handed>>

\* The variables of calls on an EmailChain alone: the last call with its
\* argument, the Map before it and the value returned; the emails passed
\* to addEmail since the last clear; the array the last render sorted.
chainVars == <<chainOp, addedSince, sorted>>

vars == <<pc, body, sourceFile, boundaries, calls, result,
          section, extracted, text, cleaned, parsed,
          emailsLeft, history,
          file, resolved,
          queue, isProcessing, currentFile, inflight, emailChain,
          submitted, fileEpoch, epoch, quiet,
          chainOp, addedSince, sorted>>

-----------------------------------------------------------------------------
(* Characters and the JavaScript string primitives the source uses.        *)

NL == "\n"
CR == "\r"

\* Characters matched by \s in a JavaScript regular expression, and
\* stripped by String.prototype.trim.
WhiteSpace == {" ", "\t", NL, CR}

\* Characters not matched by . in a JavaScript regular expression.
LineTerminators == {NL, CR}

IsWS(c) == c \in WhiteSpace

UpperCase == <<"A","B","C","D","E","F","G","H","I","J","K","L","M",
               "N","O","P","Q","R","S","T","U","V","W","X","Y","Z">>
LowerCase == <<"a","b","c","d","e","f","g","h","i","j","k","l","m",
               "n","o","p","q","r","s","t","u","v","w","x","y","z">>

Letters == {UpperCase[k] : k \in 1..26} \cup {LowerCase[k] : k \in 1..26}

\* Case folding of the /i flag.
FoldMap ==
    [c \in {UpperCase[k] : k \in 1..26} |->
        LowerCase[CHOOSE k \in 1..26 : UpperCase[k] = c]]

Lower(c) == IF c \in DOMAIN FoldMap THEN FoldMap[c] ELSE c

\* s.substring(from, to) with 0-based offsets: JavaScript clamps both
\* arguments to [0, length] and swaps them when from > to.
Clamp(n, len) == IF n < 0 THEN 0 ELSE IF n > len THEN len ELSE n

Substring(s, from, to) ==
    LET a == Clamp(from, Len(s))
        b == Clamp(to, Len(s))
        lo == IF a <= b THEN a ELSE b
        hi == IF a <= b THEN b ELSE a
    IN  SubSeq(s, lo + 1, hi)

\* s.trim()
Trim(s) ==
    LET keep == {k \in 1..Len(s) : ~IsWS(s[k])}
    IN  IF keep = {} THEN <<>>
        ELSE SubSeq(s, CHOOSE k \in keep : \A j \in keep : k <= j,
                       CHOOSE k \in keep : \A j \in keep : k >= j)

\* s.split('\n'), from position start on: always at least one line, the
\* empty string gives [''].
RECURSIVE SplitFrom(_, _)
SplitFrom(s, start) ==
    LET nls == {k \in start..Len(s) : s[k] = NL}
        nl == CHOOSE k \in nls : \A j \in nls : k <= j
    IN  IF nls = {} THEN <<SubSeq(s, start, Len(s))>>
        ELSE <<SubSeq(s, start, nl - 1)>> \o SplitFrom(s, nl + 1)

Split(s) == SplitFrom(s, 1)

\* lines.join(sep)
RECURSIVE Join(_, _)
Join(ls, sep) ==
    IF Len(ls) = 0 THEN <<>>
    ELSE IF Len(ls) = 1 THEN ls[1]
    ELSE ls[1] \o sep \o Join(Tail(ls), sep)

\* s starts at position k (1-based) with the lower-case pattern p,
\* compared case-insensitively.
MatchAtCI(s, k, p) ==
    /\ k + Len(p) - 1 <= Len(s)
    /\ \A j \in 1..Len(p) : Lower(s[k + j - 1]) = p[j]

\* The same, case-sensitively.
MatchAt(s, k, p) ==
    /\ k + Len(p) - 1 <= Len(s)
    /\ \A j \in 1..Len(p) : s[k + j - 1] = p[j]

AllIn(s, lo, hi, S) == \A j \in lo..hi : s[j] \in S
NoneIn(s, lo, hi, S) == \A j \in lo..hi : s[j] \notin S

-----------------------------------------------------------------------------
(* Boundary detector (boundaryDetector.js).                                *)

SeparatorMinRun == 20
LookaheadLines == 5

pFrom    == <<"f","r","o","m",":">>
pTo      == <<"t","o",":">>
pCc      == <<"c","c",":">>
pDate    == <<"d","a","t","e",":">>
pSent    == <<"s","e","n","t",":">>
pSubject == <<"s","u","b","j","e","c","t",":">>
pOn      == <<"o","n">>
pWrote   == <<"w","r","o","t","e",":">>

\* /^From:\s*\S/i
FromStartRegex(t) ==
    /\ MatchAtCI(t, 1, pFrom)
    /\ \E k \in 6..Len(t) : ~IsWS(t[k]) /\ AllIn(t, 6, k - 1, WhiteSpace)

\* /^(To|Date|Sent|Cc|Subject):/i
OtherHeaderRegex(t) ==
    \/ MatchAtCI(t, 1, pTo)
    \/ MatchAtCI(t, 1, pDate)
    \/ MatchAtCI(t, 1, pSent)
    \/ MatchAtCI(t, 1, pCc)
    \/ MatchAtCI(t, 1, pSubject)

\* /^On\s+.+\s+wrote:\s*$/i : "on", white space up to a, any characters but
\* line terminators up to b, white space up to w - 1, "wrote:" at w, then
\* white space to the end.
OnWroteRegex(t) ==
    /\ MatchAtCI(t, 1, pOn)
    /\ \E w \in 6..Len(t) :
          /\ MatchAtCI(t, w, pWrote)
          /\ AllIn(t, w + 6, Len(t), WhiteSpace)
          /\ \E a \in 3..(w - 3) : \E b \in (a + 1)..(w - 2) :
                /\ AllIn(t, 3, a, WhiteSpace)
                /\ NoneIn(t, a + 1, b, LineTerminators)
                /\ AllIn(t, b + 1, w - 1, WhiteSpace)

\* Faulty variant of SeparatorRegex: the run threshold off by one, {19,}.
SeparatorRegexShort(t) ==
    /\ Len(t) >= SeparatorMinRun - 1
    /\ AllIn(t, 1, Len(t), {"_", "-"})

\* /^[_-]{20,}$/
SeparatorRegex(t) ==
    /\ Len(t) >= SeparatorMinRun
    /\ AllIn(t, 1, Len(t), {"_", "-"})

\* Faulty variant of HasOtherHeaders: the slice one line longer.
HasOtherHeadersFar(lines, i) ==
    \E j \in (i + 1)..(i + LookaheadLines + 1) :
        j <= Len(lines) /\ OtherHeaderRegex(Trim(lines[j]))

\* lines.slice(i + 1, i + 6).some(...) for the 1-based line index i.
HasOtherHeaders(lines, i) ==
    \E j \in (i + 1)..(i + LookaheadLines) :
        j <= Len(lines) /\ OtherHeaderRegex(Trim(lines[j]))

\* Faulty variant of OnWroteBoundary: the boundary put after the line.
OnWroteBoundaryAfter(charPosition, line) == charPosition + Len(line) + 1

\* Offset pushed for an "On ... wrote:" line that starts at charPosition.
OnWroteBoundary(charPosition, line) == charPosition

\* Faulty variant of SeparatorBoundary: the boundary put at the line itself.
SeparatorBoundaryAtLine(charPosition, line) == charPosition

\* Faulty variant of SeparatorBoundary: the line end counted as two characters.
SeparatorBoundaryCRLF(charPosition, line) == charPosition + Len(line) + 2

\* Offset pushed for a separator line that starts at charPosition.
SeparatorBoundary(charPosition, line) == charPosition + Len(line) + 1

\* The offsets one line appends to the boundary list found so far.
LineBoundaries(lines, i, charPosition, found) ==
    LET t == Trim(lines[i])
        p1 == IF FromStartRegex(t) /\ (HasOtherHeaders(lines, i) \/ Len(found) = 0)
              THEN <<charPosition>> ELSE <<>>
        p2 == IF OnWroteRegex(t)
              THEN <<OnWroteBoundary(charPosition, lines[i])>> ELSE <<>>
        p3 == IF SeparatorRegex(t)
              THEN <<SeparatorBoundary(charPosition, lines[i])>> ELSE <<>>
    IN  p1 \o p2 \o p3

RECURSIVE ScanLines(_, _, _, _)
ScanLines(lines, i, charPosition, found) ==
    IF i > Len(lines) THEN found
    ELSE ScanLines(lines, i + 1, charPosition + Len(lines[i]) + 1,
                   found \o LineBoundaries(lines, i, charPosition, found))

identifyMessageBoundaries(b) == ScanLines(Split(b), 1, 0, <<>>)

-----------------------------------------------------------------------------
(* Text utilities (textUtils.js): header text cleaner and date parser.     *)

pMailto == <<"<","m","a","i","l","t","o",":">>

\* text.replace(/<mailto:([^>]+)>/g, ''), scanning from position k: the
\* class [^>]+ needs one character at least, so a '>' right after the colon
\* is no match.
RECURSIVE StripMailto(_, _)
StripMailto(s, k) ==
    IF k > Len(s) THEN <<>>
    ELSE LET closes == {j \in (k + 8)..Len(s) : s[j] = ">"}
             close == CHOOSE j \in closes : \A j2 \in closes : j <= j2
         IN  IF MatchAt(s, k, pMailto) /\ closes # {} /\ s[k + 8] # ">"
             THEN StripMailto(s, close + 1)
             ELSE <<s[k]>> \o StripMailto(s, k + 1)

\* The matches of /(\S+@\S+)\s+<\1>/ that start at position i, as
\* <<a, b, c>>: the first \S+ ends at a, the group at b, the \s+ at c.
DupAddrMatches(s, i) ==
    UNION { UNION { { <<a, b, c>> :
                       c \in {c \in (b + 1)..Len(s) :
                                /\ AllIn(s, b + 1, c, WhiteSpace)
                                /\ MatchAt(s, c + 1,
                                     <<"<">> \o SubSeq(s, i, b) \o <<">">>)} } :
                    b \in {b \in (a + 2)..Len(s) :
                             NoneIn(s, a + 2, b, WhiteSpace)} } :
            a \in {a \in i..(Len(s) - 2) :
                     s[a + 1] = "@" /\ NoneIn(s, i, a, WhiteSpace)} }

\* The match the backtracking engine reports among the matches ms that
\* start at one position: every quantifier is greedy.
FirstDupAddrMatch(ms) ==
    CHOOSE m \in ms : \A n \in ms :
        \/ m[1] > n[1]
        \/ m[1] = n[1] /\ m[2] > n[2]
        \/ m[1] = n[1] /\ m[2] = n[2] /\ m[3] >= n[3]

\* text.replace(/(\S+@\S+)\s+<\1>/g, '$1'), scanning from position k; the
\* match m is replaced by its group and the scan resumes after its end.
RECURSIVE CollapseDupAddr(_, _)
ReplaceDupAddr(s, k, m) ==
    SubSeq(s, k, m[2]) \o CollapseDupAddr(s, m[3] + (m[2] - k + 1) + 3)

CollapseDupAddrAt(s, k, ms) ==
    IF ms # {} THEN ReplaceDupAddr(s, k, FirstDupAddrMatch(ms))
    ELSE <<s[k]>> \o CollapseDupAddr(s, k + 1)

CollapseDupAddr(s, k) ==
    IF k > Len(s) THEN <<>>
    ELSE CollapseDupAddrAt(s, k, DupAddrMatches(s, k))

\* text.replace(/\s+/g, ' ')
RECURSIVE CollapseSpaces(_, _)
CollapseSpaces(s, k) ==
    IF k > Len(s) THEN <<>>
    ELSE IF IsWS(s[k])
         THEN IF k > 1 /\ IsWS(s[k - 1])
              THEN CollapseSpaces(s, k + 1)
              ELSE <<" ">> \o CollapseSpaces(s, k + 1)
         ELSE <<s[k]>> \o CollapseSpaces(s, k + 1)

cleanEmailText(t) ==
    IF t = <<>> THEN <<>>
    ELSE Trim(CollapseSpaces(CollapseDupAddr(StripMailto(t, 1), 1), 1))

NullDate == 0 - 1
NaNDate == 0 - 2

\* new Date(str) of the host: the instant, or NaNDate for an Invalid Date.
\* The host modelled here parses "1/2" and "3/4" and nothing else; in
\* particular it rejects a date that follows a weekday name.
HostDateParse(s) ==
    IF s = <<"1", "/", "2">> THEN 1
    ELSE IF s = <<"3", "/", "4">> THEN 2
    ELSE NaNDate

\* dateStr.replace(/^[A-Za-z]+,\s*/, '')
StripWeekday(s) ==
    LET commas == {k \in 2..Len(s) : s[k] = "," /\ AllIn(s, 1, k - 1, Letters)}
    IN  IF commas = {} THEN s
        ELSE LET k == CHOOSE c \in commas : TRUE
                 rest == {j \in (k + 1)..Len(s) : ~IsWS(s[j])}
             IN  IF rest = {} THEN <<>>
                 ELSE SubSeq(s, CHOOSE j \in rest : \A j2 \in rest : j <= j2, Len(s))

\* Faulty variant of parseOutlookDate: a pass of its own after the two
\* parses, which takes what follows a comma.
parseOutlookDateAfterComma(dateStr) ==
    IF dateStr = <<>> THEN NullDate
    ELSE IF HostDateParse(dateStr) # NaNDate THEN HostDateParse(dateStr)
    ELSE IF HostDateParse(StripWeekday(dateStr)) # NaNDate
         THEN HostDateParse(StripWeekday(dateStr))
    ELSE IF \E k \in 1..Len(dateStr) :
               /\ dateStr[k] = ","
               /\ HostDateParse(Trim(SubSeq(dateStr, k + 1, Len(dateStr)))) # NaNDate
         THEN HostDateParse(Trim(SubSeq(dateStr,
                  (CHOOSE k \in 1..Len(dateStr) : dateStr[k] = ",") + 1,
                  Len(dateStr))))
    ELSE NullDate

\* Faulty variant of parseOutlookDate: the last parse returned without the isNaN
\* test.
parseOutlookDateUnchecked(dateStr) ==
    IF dateStr = <<>> THEN NullDate
    ELSE IF HostDateParse(dateStr) # NaNDate THEN HostDateParse(dateStr)
    ELSE HostDateParse(StripWeekday(dateStr))

parseOutlookDate(dateStr) ==
    IF dateStr = <<>> THEN NullDate
    ELSE IF HostDateParse(dateStr) # NaNDate THEN HostDateParse(dateStr)
    ELSE IF HostDateParse(StripWeekday(dateStr)) # NaNDate
         THEN HostDateParse(StripWeekday(dateStr))
    ELSE NullDate

parseFlexibleDate(dateStr) ==
    IF dateStr = <<>> THEN NullDate
    ELSE IF HostDateParse(dateStr) # NaNDate THEN HostDateParse(dateStr)
    ELSE IF HostDateParse(StripWeekday(dateStr)) # NaNDate
         THEN HostDateParse(StripWeekday(dateStr))
    ELSE parseOutlookDate(dateStr)

-----------------------------------------------------------------------------
(* Section extractor (emailExtractor.js).                                  *)

ShortHeaderValue == 3
MaxSubjectLine == 200

\* The email object extractEmailFromSection starts from.
EmptyEmail ==
    [from |-> <<>>, to |-> <<>>, cc |-> <<>>, date |-> NullDate,
     subject |-> <<>>, body |-> <<>>, attachments |-> <<>>]

\* The alternative of /^(From|To|Cc|Date|Sent|Subject):/i that the trimmed
\* line starts with, lower-cased, or "none".
HeaderType(t) ==
    IF MatchAtCI(t, 1, pFrom) THEN "from"
    ELSE IF MatchAtCI(t, 1, pTo) THEN "to"
    ELSE IF MatchAtCI(t, 1, pCc) THEN "cc"
    ELSE IF MatchAtCI(t, 1, pDate) THEN "date"
    ELSE IF MatchAtCI(t, 1, pSent) THEN "sent"
    ELSE IF MatchAtCI(t, 1, pSubject) THEN "subject"
    ELSE "none"

HeaderNameLen(type) ==
    CASE type = "from" -> 5
      [] type = "to" -> 3
      [] type = "cc" -> 3
      [] type = "date" -> 5
      [] type = "sent" -> 5
      [] type = "subject" -> 8

\* headerMatch[2].trim(): after the colon \s* is skipped and (.*) runs to
\* the first line terminator.
HeaderRawValue(t, type) ==
    LET n == HeaderNameLen(type)
        nonWS == {k \in (n + 1)..Len(t) : ~IsWS(t[k])}
        from == IF nonWS = {} THEN Len(t) + 1
                ELSE CHOOSE k \in nonWS : \A j \in nonWS : k <= j
        stops == {k \in from..Len(t) : t[k] \in LineTerminators}
        to == IF stops = {} THEN Len(t)
              ELSE (CHOOSE k \in stops : \A j \in stops : k <= j) - 1
    IN  Trim(SubSeq(t, from, to))

\* A continuation stops at an empty line or at a header line.
EndsContinuation(line) ==
    LET t == Trim(line) IN t = <<>> \/ HeaderType(t) # "none"

\* Index of the line that stops the continuation started at line j, or
\* Len(lines) + 1.
RECURSIVE ContinuationEnd(_, _)
ContinuationEnd(lines, j) ==
    IF j > Len(lines) \/ EndsContinuation(lines[j]) THEN j
    ELSE ContinuationEnd(lines, j + 1)

\* headerValue += (headerValue ? ' ' : '') + nextLine, for lines j..end-1.
RECURSIVE AppendContinuation(_, _, _, _)
AppendContinuation(value, lines, j, end) ==
    IF j >= end THEN value
    ELSE AppendContinuation(
             value \o (IF value # <<>> THEN <<" ">> ELSE <<>>) \o Trim(lines[j]),
             lines, j + 1, end)

\* Faulty variant of NeedsContinuation: a value of 3 characters absorbs too.
NeedsContinuationLoose(raw) == raw = <<>> \/ Len(raw) <= ShortHeaderValue

\* A header value absorbs the following lines when it is empty or shorter
\* than 3 characters.
NeedsContinuation(raw) == raw = <<>> \/ Len(raw) < ShortHeaderValue

\* Faulty variant of StoreHeader: a date that does not parse leaves the
\* date stored before.
StoreHeaderKeepDate(email, type, value) ==
    CASE type = "from" -> [email EXCEPT !.from = value]
      [] type = "to" -> [email EXCEPT !.to = value]
      [] type = "cc" -> [email EXCEPT !.cc = value]
      [] type \in {"date", "sent"} ->
            IF parseFlexibleDate(value) = NullDate THEN email
            ELSE [email EXCEPT !.date = parseFlexibleDate(value)]
      [] type = "subject" -> [email EXCEPT !.subject = value]

\* The switch on headerType.
StoreHeader(email, type, value) ==
    CASE type = "from" -> [email EXCEPT !.from = value]
      [] type = "to" -> [email EXCEPT !.to = value]
      [] type = "cc" -> [email EXCEPT !.cc = value]
      [] type \in {"date", "sent"} -> [email EXCEPT !.date = parseFlexibleDate(value)]
      [] type = "subject" -> [email EXCEPT !.subject = value]

\* /^(From|To|Cc|Date|Sent|Subject):/i.test(trimmedLine)
HeaderPrefixRegex(t) == HeaderType(t) # "none"

\* The header loop from the 1-based line index i on; the result holds the
\* email and the index of the first body line.
RECURSIVE HeaderLoop(_, _, _, _)

\* Faulty variant of MarksHeadersFound: any header marks the headers found.
MarksHeadersFoundAny(type) == TRUE

\* foundHeaders = true stands in the case 'from' of the switch only.
MarksHeadersFound(type) == type = "from"

\* A header line whose value, continuation included, ends before line end.
HeaderStore(lines, i, email, foundHeaders, type, raw, end) ==
    HeaderLoop(lines, end,
        StoreHeader(email, type,
            cleanEmailText(IF NeedsContinuation(raw)
                           THEN AppendContinuation(raw, lines, i + 1, end)
                           ELSE raw)),
        foundHeaders \/ MarksHeadersFound(type))

\* A header line with the value raw after its colon.
HeaderLine(lines, i, email, foundHeaders, type, raw) ==
    HeaderStore(lines, i, email, foundHeaders, type, raw,
        IF NeedsContinuation(raw) THEN ContinuationEnd(lines, i + 1) ELSE i + 1)

\* Faulty variant of BlankLine: the loop reads on after the empty line.
BlankLineRead(lines, i, email, foundHeaders) ==
    HeaderLoop(lines, i + 1, email, foundHeaders)

\* An empty line after headers: i++; break.
BlankLine(lines, i, email, foundHeaders) == [email |-> email, i |-> i + 1]

\* Faulty variant of IsUnlabeledSubject: a line of 200 characters taken too.
IsUnlabeledSubjectLong(email, t) ==
    email.subject = <<>> /\ t # <<>> /\ Len(t) <= MaxSubjectLine

\* !email.subject && trimmedLine && trimmedLine.length < 200
IsUnlabeledSubject(email, t) ==
    email.subject = <<>> /\ t # <<>> /\ Len(t) < MaxSubjectLine

\* One pass of the loop on the trimmed line t, whose header type is type.
HeaderStep(lines, i, email, foundHeaders, t, type) ==
    IF type # "none"
    THEN HeaderLine(lines, i, email, foundHeaders, type, HeaderRawValue(t, type))
    ELSE IF foundHeaders /\ t = <<>>
         THEN BlankLine(lines, i, email, foundHeaders)
    ELSE IF foundHeaders /\ ~HeaderPrefixRegex(t)
         THEN IF IsUnlabeledSubject(email, t)
              THEN HeaderLoop(lines, i + 1, [email EXCEPT !.subject = t],
                              foundHeaders)
              ELSE [email |-> email, i |-> i]
    ELSE HeaderLoop(lines, i + 1, email, foundHeaders)

HeaderTrimmed(lines, i, email, foundHeaders, t) ==
    HeaderStep(lines, i, email, foundHeaders, t, HeaderType(t))

HeaderLoop(lines, i, email, foundHeaders) ==
    IF i > Len(lines) THEN [email |-> email, i |-> i]
    ELSE HeaderTrimmed(lines, i, email, foundHeaders, Trim(lines[i]))

\* Index of the first line the header loop reads: an "On ... wrote:" first
\* line is skipped.
FirstHeaderLine(lines) ==
    IF lines[1] # <<>> /\ OnWroteRegex(Trim(lines[1])) THEN 2 ELSE 1

\* email.body = lines.slice(i).join('\n').trim(), when lines are left.
WithBody(lines, st) ==
    IF st.i <= Len(lines)
    THEN [st.email EXCEPT
             !.body = Trim(Join(SubSeq(lines, st.i, Len(lines)), <<NL>>))]
    ELSE st.email

FieldsOfLines(lines) ==
    WithBody(lines, HeaderLoop(lines, FirstHeaderLine(lines), EmptyEmail, FALSE))

\* The fields the extractor has parsed when it reaches its validity check.
ParsedFields(sec) == FieldsOfLines(Split(sec))

\* Faulty variant of IsValidEmail: || in place of &&.
IsValidEmailAnyField(email) ==
    \/ email.from # <<>> \/ email.to # <<>>
    \/ email.date # NullDate \/ email.subject # <<>>

\* (email.from || email.to) && (email.date || email.subject): a Date object
\* is truthy whatever it holds, null is not.
IsValidEmail(email) ==
    /\ email.from # <<>> \/ email.to # <<>>
    /\ email.date # NullDate \/ email.subject # <<>>

\* return email, or return null.
ValidOrNull(email) == IF IsValidEmail(email) THEN <<email>> ELSE <<>>

extractEmailFromSection(sec) == ValidOrNull(ParsedFields(sec))

-----------------------------------------------------------------------------
(* Chain coordinator (chainParser.js).                                     *)

\* extractedEmail.sourceFile = sourceFile
Stamp(email, sf) ==
    [from |-> email.from, to |-> email.to, cc |-> email.cc, date |-> email.date,
     subject |-> email.subject, body |-> email.body,
     attachments |-> email.attachments, sourceFile |-> sf]

\* Faulty variant of PushEmail: emails.unshift(extractedEmail).
UnshiftEmail(emails, email) == <<email>> \o emails

\* emails.push(extractedEmail)
PushEmail(emails, email) == Append(emails, email)

\* Faulty variant of SectionEnd: every section runs to the end of the body.
SectionEndOfBody(b, bnds, i) == Len(b)

\* body.substring(startPos, endPos).trim() for the 1-based boundary index i.
SectionStart(b, bnds, i) == bnds[i]
SectionEnd(b, bnds, i) == IF i < Len(bnds) THEN bnds[i + 1] ELSE Len(b)
SectionAt(b, bnds, i) ==
    Trim(Substring(b, SectionStart(b, bnds, i), SectionEnd(b, bnds, i)))

\* Faulty variant of NewEmails: the array is declared once, outside the
\* function, so a call starts from what the previous call left in it.
SharedEmails == emailsLeft

\* const emails = []: an array created by every call.
NewEmails == <<>>

\* The for loop from boundary index i on.  acc.emails is the array built;
\* acc.calls logs every call of the extractor: the index of the boundary,
\* the offset the section starts at, the section handed over and what came
\* back.
RECURSIVE ChainLoop(_, _, _, _, _)

\* The section sec was handed to the extractor, which returned got.
ChainExtracted(b, sf, bnds, i, acc, sec, got) ==
    ChainLoop(b, sf, bnds, i + 1,
        [emails |-> IF got # <<>> THEN PushEmail(acc.emails, Stamp(got[1], sf))
                    ELSE acc.emails,
         calls |-> Append(acc.calls,
                       [index |-> i, start |-> SectionStart(b, bnds, i),
                        section |-> sec, email |-> got])])

\* Faulty variant of ChainSection: an empty section is handed over too.
ChainSectionAlways(b, sf, bnds, i, acc, sec) ==
    ChainExtracted(b, sf, bnds, i, acc, sec, extractEmailFromSection(sec))

\* if (!section) continue
ChainSection(b, sf, bnds, i, acc, sec) ==
    IF sec = <<>> THEN ChainLoop(b, sf, bnds, i + 1, acc)
    ELSE ChainExtracted(b, sf, bnds, i, acc, sec, extractEmailFromSection(sec))

ChainLoop(b, sf, bnds, i, acc) ==
    IF i > Len(bnds) THEN acc
    ELSE ChainSection(b, sf, bnds, i, acc, SectionAt(b, bnds, i))

\* Faulty variant of ChainResult: emails.length > 0.
ChainResultAny(emails) == IF Len(emails) > 0 THEN emails ELSE <<>>

\* return emails.length > 1 ? emails : []
ChainResult(emails) == IF Len(emails) > 1 THEN emails ELSE <<>>

\* One run of parseForwardedChain: the boundary list, the extractor calls
\* and the value returned.
ChainReturn(bnds, acc) ==
    [boundaries |-> bnds, calls |-> acc.calls, emails |-> acc.emails,
     result |-> ChainResult(acc.emails)]

\* A return before the array is created leaves no array behind.
ChainOfBoundaries(b, sf, bnds) ==
    IF Len(bnds) = 0
    THEN [boundaries |-> bnds, calls |-> <<>>, emails |-> <<>>, result |-> <<>>]
    ELSE ChainReturn(bnds,
             ChainLoop(b, sf, bnds, 1, [emails |-> NewEmails, calls |-> <<>>]))

ChainRun(b, sf) ==
    IF b = <<>>
    THEN [boundaries |-> <<>>, calls |-> <<>>, emails |-> <<>>, result |-> <<>>]
    ELSE ChainOfBoundaries(b, sf, identifyMessageBoundaries(b))

parseForwardedChain(b, sf) == ChainRun(b, sf).result

-----------------------------------------------------------------------------
(* .msg file parser (msgParser.js).  A file is a record: its name, whether *)
(* the reader accepts it, and the fields the reader returns.  The chain    *)
(* parser and the section extractor this file calls are its own.           *)

UnderscoreMinRun == 20

\* The first position from k on where a run of UnderscoreMinRun
\* underscores starts, or 0.
UnderscoreRunStart(b, k) ==
    LET starts == {i \in k..(Len(b) - UnderscoreMinRun + 1) :
                      \A j \in i..(i + UnderscoreMinRun - 1) : b[j] = "_"}
    IN  IF starts = {} THEN 0
        ELSE CHOOSE i \in starts : \A j \in starts : i <= j

\* The last position of the run of underscores that starts at k.
UnderscoreRunEnd(b, k) ==
    LET others == {i \in k..Len(b) : b[i] # "_"}
    IN  IF others = {} THEN Len(b)
        ELSE (CHOOSE i \in others : \A j \in others : i <= j) - 1

\* /_{20,}/.test(body)
HasOutlookSeparator(b) == UnderscoreRunStart(b, 1) # 0

\* /^(From|Sent):/m.test(body)
HasForwardedHeaders(b) ==
    \E k \in 1..Len(b) :
        /\ k = 1 \/ b[k - 1] \in LineTerminators
        /\ \/ MatchAt(b, k, <<"F","r","o","m",":">>)
           \/ MatchAt(b, k, <<"S","e","n","t",":">>)

\* body.split(/_{20,}/), from position k on.
RECURSIVE SplitAtRuns(_, _)
SplitAtRunFrom(b, k, at) ==
    IF at = 0 THEN <<SubSeq(b, k, Len(b))>>
    ELSE <<SubSeq(b, k, at - 1)>> \o SplitAtRuns(b, UnderscoreRunEnd(b, at) + 1)

SplitAtRuns(b, k) == SplitAtRunFrom(b, k, UnderscoreRunStart(b, k))

\* parseDate(dateValue) for a string: the reader's dates and the value of
\* a Date: line.
parseDate(dateValue) ==
    IF dateValue = <<>> THEN NullDate
    ELSE IF HostDateParse(dateValue) = NaNDate THEN NullDate
    ELSE HostDateParse(dateValue)

\* line.replace(/^From:\s*/i, '').trim() and the like, n the length of
\* the header name with its colon.
MsgHeaderValue(t, n) == Trim(SubSeq(t, n + 1, Len(t)))

\* The header branches of the loop of msgParser.js, in their order; the
\* email with the field stored.
MsgStoreHeader(email, t) ==
    IF MatchAtCI(t, 1, pFrom) THEN [email EXCEPT !.from = MsgHeaderValue(t, 5)]
    ELSE IF MatchAtCI(t, 1, pSent)
         THEN [email EXCEPT !.date = parseOutlookDate(MsgHeaderValue(t, 5))]
    ELSE IF MatchAtCI(t, 1, pDate)
         THEN [email EXCEPT !.date = parseDate(MsgHeaderValue(t, 5))]
    ELSE IF MatchAtCI(t, 1, pTo) THEN [email EXCEPT !.to = MsgHeaderValue(t, 3)]
    ELSE IF MatchAtCI(t, 1, pCc) THEN [email EXCEPT !.cc = MsgHeaderValue(t, 3)]
    ELSE [email EXCEPT !.subject = MsgHeaderValue(t, 8)]

\* The header loop from line i (1-based) on: the email and bodyStartIndex
\* (0-based) it ends with.
RECURSIVE MsgHeaderLoop(_, _, _, _, _)
MsgHeaderLine(lines, i, email, foundHeaders, bodyStartIndex, t) ==
    IF HeaderType(t) # "none"
    THEN MsgHeaderLoop(lines, i + 1, MsgStoreHeader(email, t),
                       foundHeaders \/ MatchAtCI(t, 1, pFrom), i)
    ELSE IF foundHeaders /\ t # <<>>
    THEN [email |-> email, bodyStartIndex |-> i - 1]
    ELSE MsgHeaderLoop(lines, i + 1, email, foundHeaders, bodyStartIndex)

MsgHeaderLoop(lines, i, email, foundHeaders, bodyStartIndex) ==
    IF i > Len(lines)
    THEN [email |-> email, bodyStartIndex |-> bodyStartIndex]
    ELSE MsgHeaderLine(lines, i, email, foundHeaders, bodyStartIndex,
                       Trim(lines[i]))

\* email.body = lines.slice(bodyStartIndex).join('\n').trim()
MsgWithBody(lines, st) ==
    IF st.bodyStartIndex < Len(lines)
    THEN [st.email EXCEPT
             !.body = Trim(Join(SubSeq(lines, st.bodyStartIndex + 1, Len(lines)),
                                <<NL>>))]
    ELSE st.email

\* if (email.from && email.date) return email; return null
MsgValidOrNull(email) ==
    IF email.from # <<>> /\ email.date # NullDate THEN <<email>> ELSE <<>>

\* extractEmailFromSection of msgParser.js.
MsgExtractEmailFromSection(sec) ==
    MsgValidOrNull(MsgWithBody(Split(sec),
                       MsgHeaderLoop(Split(sec), 1, EmptyEmail, FALSE, 0)))

\* The loop over the sections of msgParser.js's parseForwardedChain.
RECURSIVE MsgChainLoop(_, _, _, _)
MsgChainSection(secs, i, sf, acc, got) ==
    MsgChainLoop(secs, i + 1, sf,
        IF got # <<>> THEN Append(acc, Stamp(got[1], sf)) ELSE acc)

MsgChainLoop(secs, i, sf, acc) ==
    IF i > Len(secs) THEN acc
    ELSE IF Trim(secs[i]) = <<>> THEN MsgChainLoop(secs, i + 1, sf, acc)
    ELSE MsgChainSection(secs, i, sf, acc,
                         MsgExtractEmailFromSection(Trim(secs[i])))

\* return emails.length > 1 ? emails : []
MsgChainResult(found) == IF Len(found) > 1 THEN found ELSE <<>>

\* parseForwardedChain of msgParser.js.
MsgParseForwardedChain(b, sf) ==
    IF b = <<>> THEN <<>>
    ELSE IF ~HasOutlookSeparator(b) /\ ~HasForwardedHeaders(b) THEN <<>>
    ELSE MsgChainResult(MsgChainLoop(SplitAtRuns(b, 1), 1, sf, <<>>))

formatAddress(name, email) ==
    IF name = <<>> /\ email = <<>> THEN <<>>
    ELSE IF email = <<>> THEN name
    ELSE IF name = <<>> THEN email
    ELSE name \o <<" ", "<">> \o email \o <<">">>

\* The formatted, non-empty addresses of the recipients of one type.
RECURSIVE FormattedRecipients(_, _)
FormattedRecipients(recipients, recipientType) ==
    IF recipients = <<>> THEN <<>>
    ELSE (IF /\ Head(recipients).recipType = recipientType
             /\ formatAddress(Head(recipients).name, Head(recipients).email) # <<>>
          THEN <<formatAddress(Head(recipients).name, Head(recipients).email)>>
          ELSE <<>>)
         \o FormattedRecipients(Tail(recipients), recipientType)

formatRecipients(recipients, type) ==
    Join(FormattedRecipients(recipients, IF type = "cc" THEN 2 ELSE 1),
         <<",", " ">>)

\* extractBody(fileData), for a file without an HTML body.
extractBody(fileData) == fileData.body

\* attachments.map(att => att.fileName || att.name).filter(Boolean)
RECURSIVE extractAttachments(_)
extractAttachments(attachments) ==
    IF attachments = <<>> THEN <<>>
    ELSE (IF Head(attachments).fileName # <<>> THEN <<Head(attachments).fileName>>
          ELSE IF Head(attachments).name # <<>> THEN <<Head(attachments).name>>
          ELSE <<>>)
         \o extractAttachments(Tail(attachments))

\* The record parseMsgFile builds from the reader's fields.
WholeMessage(f) ==
    [from |-> formatAddress(f.data.senderName, f.data.senderEmail),
     to |-> formatRecipients(f.data.recipients, "to"),
     cc |-> formatRecipients(f.data.recipients, "cc"),
     date |-> parseDate(IF f.data.messageDeliveryTime # <<>>
                        THEN f.data.messageDeliveryTime
                        ELSE f.data.clientSubmitTime),
     subject |-> f.data.subject,
     body |-> extractBody(f.data),
     attachments |-> extractAttachments(f.data.attachments),
     sourceFile |-> f.name]

\* Faulty variant of MsgReturn: the chain is returned as it is.
MsgReturnChain(chainEmails, email) == chainEmails

\* return chainEmails.length > 0 ? chainEmails : [email]
MsgReturn(chainEmails, email) ==
    IF Len(chainEmails) > 0 THEN chainEmails ELSE <<email>>

\* One run of parseMsgFile: whether the promise resolves, what the chain
\* parser returned and the list resolved to.  A file the reader rejects
\* makes the promise reject.
MsgResolved(email, chainEmails) ==
    [resolves |-> TRUE, chain |-> chainEmails,
     emails |-> MsgReturn(chainEmails, email)]

MsgRun(f, email) ==
    IF ~f.readable
    THEN [resolves |-> FALSE, chain |-> <<>>, emails |-> <<>>]
    ELSE MsgResolved(email, MsgParseForwardedChain(email.body, f.name))

parseMsgFile(f) == MsgRun(f, WholeMessage(f))

-----------------------------------------------------------------------------
(* Email chain (emailChain.js).  The Map this.emails is the sequence of    *)
(* its entries [id, email] in insertion order.  Instants count from an     *)
(* origin placed before 1970, so that new Date(0) is EpochInstant.         *)

BodyIdChars == 100
EpochInstant == 2

\* date.toISOString(): one string per instant.
Digits == <<"1", "2", "3", "4", "5", "6", "7", "8", "9">>
toISOString(d) == <<"T", Digits[d]>>

\* Faulty variant of generateEmailId: the sender is left out.
generateEmailIdNoFrom(email) ==
    Join(<<IF email.date # NullDate THEN toISOString(email.date) ELSE <<>>,
           email.subject,
           Substring(email.body, 0, BodyIdChars)>>, <<"|", "|", "|">>)

\* parts.join('|||')
generateEmailId(email) ==
    Join(<<IF email.date # NullDate THEN toISOString(email.date) ELSE <<>>,
           email.subject,
           email.from,
           Substring(email.body, 0, BodyIdChars)>>, <<"|", "|", "|">>)

\* this.emails.has(emailId)
MapHas(map, id) == \E k \in 1..Len(map) : map[k].id = id

\* this.emails.set(emailId, email) for an identifier the map does not hold.
MapSet(map, id, email) == Append(map, [id |-> id, email |-> email])

\* Array.from(this.emails.values())
MapValues(map) == [k \in 1..Len(map) |-> map[k].email]

\* addEmail(email): the value returned and the map afterwards.
addEmail(map, email) ==
    IF MapHas(map, generateEmailId(email))
    THEN [added |-> FALSE, emails |-> map]
    ELSE [added |-> TRUE, emails |-> MapSet(map, generateEmailId(email), email)]

\* getCount()
getCount(map) == Len(map)

\* a.date || new Date(0)
SortDate(email) == IF email.date # NullDate THEN email.date ELSE EpochInstant

\* Faulty variant of CompareEmails: dateB - dateA.
CompareEmailsDescending(a, b) == SortDate(b) - SortDate(a)

\* The comparator: dateA - dateB.
CompareEmails(a, b) == SortDate(a) - SortDate(b)

\* Array.prototype.sort, which is stable: e is placed after the last
\* element of the sorted array that does not compare greater than it.
InsertSorted(arr, e) ==
    LET notAfter == {k \in 1..Len(arr) : CompareEmails(arr[k], e) <= 0}
        at == IF notAfter = {} THEN 0
              ELSE CHOOSE k \in notAfter : \A j \in notAfter : k >= j
    IN  SubSeq(arr, 1, at) \o <<e>> \o SubSeq(arr, at + 1, Len(arr))

RECURSIVE SortEmails(_)
SortEmails(arr) ==
    IF arr = <<>> THEN <<>>
    ELSE InsertSorted(SortEmails(SubSeq(arr, 1, Len(arr) - 1)), arr[Len(arr)])

getSortedEmails(map) == SortEmails(MapValues(map))

\* for (const email of emails) this.emailChain.addEmail(email)
RECURSIVE AddEmails(_, _)
AddEmails(map, found) ==
    IF found = <<>> THEN map
    ELSE AddEmails(addEmail(map, Head(found)).emails, Tail(found))

-----------------------------------------------------------------------------
(* Processing queue (queue.js) and application (app.js).  A call of the    *)
(* processor is in flight from the call of processFile to the settling of  *)
(* file.arrayBuffer(); what follows it (the rest of parseMsgFile, the loop *)
(* of processFile, the next call of processNext) runs in promise           *)
(* reactions, before any other event.  Toasts and the DOM are left out.    *)

pMsg == <<".", "m", "s", "g">>

\* file.name.toLowerCase().endsWith('.msg')
IsMsgFile(f) ==
    /\ Len(f.name) >= Len(pMsg)
    /\ MatchAtCI(f.name, Len(f.name) - Len(pMsg) + 1, pMsg)

\* fileArray.filter(...)
MsgFilesOf(files) == SelectSeq(files, IsMsgFile)

\* clear(): this.isProcessing = false
ClearedIsProcessing(flag) == FALSE

\* getSize()
getSize(q, cur) == Len(q) + (IF cur # <<>> THEN 1 ELSE 0)

\* isActive()
isActive(flag) == flag

\* Faulty variant of processNext: this.queue.pop() in place of shift().
processNextLast(q, infl) ==
    IF Len(q) = 0
    THEN [queue |-> q, isProcessing |-> FALSE, currentFile |-> <<>>,
          inflight |-> infl]
    ELSE [queue |-> SubSeq(q, 1, Len(q) - 1), isProcessing |-> TRUE,
          currentFile |-> <<q[Len(q)]>>, inflight |-> infl \cup {q[Len(q)]}]

\* processNext() up to its await, for the queue q and the set infl of
\* calls in flight: the fields of the queue and the calls in flight after.
processNext(q, infl) ==
    IF Len(q) = 0
    THEN [queue |-> q, isProcessing |-> FALSE, currentFile |-> <<>>,
          inflight |-> infl]
    ELSE [queue |-> Tail(q), isProcessing |-> TRUE, currentFile |-> <<Head(q)>>,
          inflight |-> infl \cup {Head(q)}]

\* addFiles(files), for the fields st of the queue.
addFiles(st, files) ==
    IF ~st.isProcessing THEN processNext(st.queue \o files, st.inflight)
    ELSE [st EXCEPT !.queue = st.queue \o files]

\* The file the processor was called on, when the calls in flight went
\* from before to after.
Started(before, after) ==
    IF after \ before = {} THEN <<>> ELSE <<CHOOSE f \in after \ before : TRUE>>

\* processFile(file) after its await: the Map after the emails parsed from
\* the file were added; a rejection adds nothing.
ProcessedInto(map, run) ==
    IF run.resolves THEN AddEmails(map, run.emails) ELSE map

-----------------------------------------------------------------------------
(* Inputs.                                                                 *)

\* Lines the bodies are made of: a From: header and a Subject: header
\* (values of 3 characters or more), a Sent: header the host parses once
\* the weekday is stripped, a blank line, a line of text, a separator of
\* exactly 20 characters, a quote introducer in mixed case, and the near
\* misses: From: without a value, a run of 19 characters.
lFrom == <<"F","r","o","m",":"," ","a","@","x">>
lSubject == <<"S","u","b","j","e","c","t",":"," ","H","e","y">>
lBlank == <<>>
lText == <<"H","i">>
lSeparator ==
    <<"_","_","_","_","_","_","_","_","_","_","-","-","-","-","-","-","-",
      "-","-","-">>
lOnWrote == <<"o","n"," ","x"," ","W","r","o","t","e",":">>
lFromBare == <<"f","r","o","m",":">>
lSent == <<"S","e","n","t",":"," ","M","o","n",","," ","1","/","2">>
lShortRun ==
    <<"_","_","_","_","_","_","_","_","_","_","_","_","_","_","_","_","_",
      "_","_">>

BodyLines ==
    {lFrom, lSubject, lSent, lBlank, lText, lSeparator, lOnWrote, lFromBare, lShortRun}

MaxBodyLines == 4

\* The two-message body of the specification (section 8), its dates
\* written in the form the modelled host parses.
TwoMessageBody ==
    <<"F","r","o","m",":"," ","A","l","i","c","e"," ","<","a","@","x",".",
      "c","o","m",">",NL,"S","e","n","t",":"," ","M","o","n","d","a","y",",",
      " ","1","/","2",NL,"T","o",":"," ","B","o","b"," ","<","b","@","x",".",
      "c","o","m",">",NL,"S","u","b","j","e","c","t",":"," ","H","i",NL,NL,
      "H","e","l","l","o"," ","B","o","b",".",NL,"_","_","_","_","_","_","_",
      "_","_","_","_","_","_","_","_","_","_","_","_","_","_","_","_","_",
      "_","_","_","_","_","_","_","_",NL,"F","r","o","m",":"," ","B","o","b",
      " ","<","b","@","x",".","c","o","m",">",NL,"S","e","n","t",":"," ","T",
      "u","e","s","d","a","y",","," ","3","/","4",NL,"T","o",":"," ","A","l",
      "i","c","e"," ","<","a","@","x",".","c","o","m",">",NL,"S","u","b","j",
      "e","c","t",":"," ","R","e",":"," ","H","i",NL,NL,"H","i"," ","A","l",
      "i","c","e",".">>

\* Header lines a From: line is followed by, in mixed case.
lToLine == <<"T","o",":"," ","b","@","x">>
lCcLower == <<"c","c",":"," ","c","@","x">>
lDateUpper == <<"D","A","T","E",":"," ","3","/","4">>

LookaheadHeaders == {lSubject, lSent, lToLine, lCcLower, lDateUpper}

\* What precedes the From: line: nothing, a quote introducer, a separator.
LookaheadPrefixes == {<<>>, <<lOnWrote>>, <<lSeparator>>}

MaxHeaderGap == 6

\* A From: line, 0..MaxHeaderGap lines of text, then a header line: the
\* header is the (gap + 1)-th line after the From: line.
LookaheadBodies ==
    {Join(pre \o <<lFrom>> \o [k \in 1..gap |-> lText] \o <<h>>, <<NL>>) :
        pre \in LookaheadPrefixes, gap \in 0..MaxHeaderGap, h \in LookaheadHeaders}

lLongRun == lSeparator \o <<"-">>
lPaddedRun == <<" ">> \o lSeparator \o <<" ", "\t">>
lBrokenRun == lSeparator \o <<"x">>
lPaddedOnWrote == <<" ", " ">> \o lOnWrote \o <<" ">>

\* A message, then a line, alone or followed by a second message (one
\* that starts with From:, with a quote introducer, with To:): the
\* line is a separator of 20 or of 21 characters, one set in white space,
\* a run of 19, a run with another character in it, a quote introducer set
\* in white space.
PatternBodies ==
    {Join(<<lFrom, lSubject, lText, x>> \o rest, <<NL>>) :
        x \in {lSeparator, lLongRun, lPaddedRun, lShortRun, lBrokenRun,
               lPaddedOnWrote},
        rest \in {<<>>, <<lFrom, lSubject, lText>>, <<lOnWrote, lFrom, lSent>>,
                  <<lToLine, lSubject, lText>>}}

\* Two messages under a line that precedes the first boundary: a line of
\* text, header lines, a From: line without content.
lSubjectLead == <<"S","u","b","j","e","c","t",":"," ","L","e","a","d">>
lToLead == <<"T","o",":"," ","l","@","y">>
PrefacedBodies ==
    {Join(<<x>> \o first \o <<lOnWrote, lToLine, lSubject>>, <<NL>>) :
        x \in {lText, lSubjectLead, lToLead, lFromBare},
        first \in {<<lFrom, lSubject, lText>>, <<lBlank, lFrom, lSent>>}}

\* Every body of 1..MaxBodyLines lines, each without a trailing newline
\* unless its last line is blank; the one-line body made of the blank line
\* is the empty body.
Bodies ==
    {Join(ls, <<NL>>) : ls \in UNION {[1..n -> BodyLines] : n \in 1..MaxBodyLines}}
        \cup {TwoMessageBody} \cup LookaheadBodies \cup PatternBodies
        \cup PrefacedBodies

SourceFiles == {"a.msg"}

-----------------------------------------------------------------------------
(* Specification Spec: one call of parseForwardedChain on a body.          *)

Init ==
    /\ pc = "start"
    /\ body \in Bodies
    /\ sourceFile \in SourceFiles
    /\ boundaries = <<>>
    /\ calls = <<>>
    /\ result = <<>>
    /\ section = <<>>
    /\ extracted = <<>>
    /\ text = <<>>
    /\ cleaned = <<>>
    /\ parsed = NullDate
    /\ emailsLeft = <<>>
    /\ history = <<>>
    /\ file = <<>>
    /\ resolved = <<>>
    /\ queue = <<>>
    /\ isProcessing = FALSE
    /\ currentFile = <<>>
    /\ inflight = {}
    /\ emailChain = <<>>
    /\ submitted = 0
    /\ fileEpoch = <<>>
    /\ epoch = 0
    /\ quiet = FALSE
    /\ handed = [added |-> <<>>, started |-> <<>>]
    /\ chainOp = [op |-> "none", n |-> 0]
    /\ addedSince = <<>>
    /\ sorted = <<>>

ParseForwardedChain ==
    /\ pc = "start"
    /\ \E run \in {ChainRun(body, sourceFile)} :
          /\ boundaries' = run.boundaries
          /\ calls' = run.calls
          /\ result' = run.result
          /\ emailsLeft' = run.emails
    /\ pc' = "done"
    /\ UNCHANGED <<body, sourceFile, section, extracted, text, cleaned, parsed,
                   history>>
    /\ UNCHANGED msgVars
    /\ UNCHANGED appVars
    /\ UNCHANGED chainVars

Next == ParseForwardedChain

Spec == Init /\ [][Next]_vars

-----------------------------------------------------------------------------
(* Specification SpecParts: the extractor, the cleaner and the date        *)
(* parser, each called on its own input.                                   *)

\* Lines the sections are made of, besides lines of the bodies: a To:
\* header decorated with a mailto link, a Date: header the host parses
\* directly and one, in upper case, that it cannot parse.
lTo == <<"T","o",":"," ","b"," ","<","m","a","i","l","t","o",":","b","@","x",">">>
lDate == <<"D","a","t","e",":"," ","3","/","4">>
lDateBad == <<"D","A","T","E",":"," ","b","a","d">>

SectionLines ==
    {lFrom, lFromBare, lTo, lSubject, lSent, lDate, lDateBad, lBlank, lText, lOnWrote}

MaxSectionLines == 3

\* Header lines with a value of 0, 1, 2 and 3 characters.
lToShort == <<"T","o",":"," ","b">>
lCcShort == <<"c","c",":"," ","a","b">>
lSubjectShort == <<"S","U","B","J","E","C","T",":","R","e">>
lSentBare == <<"S","e","n","t",":"," "," ">>
ContinuationHeads ==
    {lFromBare, lToShort, lCcShort, lSubjectShort, lSentBare, lFrom, lToLine}

\* Lines a value continues on: text, an address set in white space, a
\* name with a mailto decoration, a date.
lPaddedAddress == <<" ","a","@","x"," ">>
lDecorated == <<"b"," ","<","m","a","i","l","t","o",":","b","@","x",">">>
lDateText == <<"3","/","4">>
ContinuationLines == {lText, lPaddedAddress, lDecorated, lDateText}

MaxContinuation == 2

\* What follows: nothing, a blank line and text, other header lines.
ContinuationEnds ==
    {<<>>, <<lBlank, lText>>, <<lSubject>>, <<lSubject, lText>>,
     <<lDate, lBlank, lText>>, <<lFrom, lSubject>>, <<lToLine, lSent>>}

\* A header line, 0..MaxContinuation lines, then what follows.
ContinuationSections ==
    {Join(<<h>> \o c \o e, <<NL>>) :
        h \in ContinuationHeads,
        c \in UNION {[1..n -> ContinuationLines] : n \in 0..MaxContinuation},
        e \in ContinuationEnds}

\* Header lines that differ from the ones above.
lFromOther == <<"F","r","o","m",":"," ","z","@","y">>
lSubjectOther == <<"s","u","b","j","e","c","t",":"," ","O","t","h","e","r">>

\* Header blocks that hold a From: header, and lines of body text, header
\* lines among them.
BlockHeads ==
    {<<lFrom, lSubject>>, <<lTo, lFrom, lSent>>, <<lFromBare, lText, lSubject>>,
     <<lOnWrote, lDate, lFrom>>}
BlockBodyLines == {lText, lFromOther, lSubjectOther, lDateBad, lToLine, lBlank}

MaxBlockBody == 2

\* A header block, an empty line, then 1..MaxBlockBody lines.
BlockSections ==
    {Join(h \o <<lBlank>> \o b, <<NL>>) :
        h \in BlockHeads,
        b \in UNION {[1..n -> BlockBodyLines] : n \in 1..MaxBlockBody}}

\* Lines of 199 and of 200 characters.
lLong199 == [k \in 1..(MaxSubjectLine - 1) |-> "y"]
lLong200 == [k \in 1..MaxSubjectLine |-> "y"]

\* A header block that starts with From:, a line that is no header, then
\* what follows.
UnlabeledHeads == {<<lFrom>>, <<lFrom, lSubject>>, <<lFrom, lToLine>>, <<lFrom, lDate>>}
UnlabeledLines == {lText, lLong199, lLong200, lPaddedAddress, lDecorated}
UnlabeledEnds ==
    {<<>>, <<lText>>, <<lDate>>, <<lDate, lText>>, <<lSubjectOther>>,
     <<lToLine, lText>>, <<lBlank, lText>>}
UnlabeledSections ==
    {Join(h \o <<x>> \o e, <<NL>>) :
        h \in UnlabeledHeads, x \in UnlabeledLines, e \in UnlabeledEnds}

\* Sections without a From: header: a header line, an empty line and a
\* line of text, a second header line, then what follows.
NoFromSections ==
    {Join(<<h1, lBlank, lText, h2>> \o e, <<NL>>) :
        h1 \in {lTo, lToLine, lCcLower, lOnWrote},
        h2 \in {lSubject, lDate, lSent, lToLead, lDateBad},
        e \in {<<>>, <<lBlank, lText>>, <<lText, lSubjectOther>>,
               <<lLong200, lToLead>>}}

\* Header blocks in which header names come back: From: and Subject:,
\* MaxRepeats more header lines, then nothing or an empty line and text.
RepeatLines == {lSent, lDate, lDateBad, lSubjectOther, lFromOther, lToLine, lToLead}

MaxRepeats == 2

RepeatSections ==
    {Join(<<lFrom, lSubject>> \o r \o e, <<NL>>) :
        r \in [1..MaxRepeats -> RepeatLines],
        e \in {<<>>, <<lBlank, lText>>}}

\* The coordinator hands over trimmed, non-empty slices only.
Sections ==
    {sec \in {Join(ls, <<NL>>) :
                ls \in UNION {[1..n -> SectionLines] : n \in 1..MaxSectionLines}}
              \cup ContinuationSections \cup BlockSections
              \cup UnlabeledSections \cup NoFromSections \cup RepeatSections :
        sec # <<>> /\ Trim(sec) = sec}

\* Pieces the header texts are made of: the two halves of a mailto
\* decoration, an address, the same address in angle brackets after a
\* space, a run of white space and a name.
tMailtoOpen == <<"<","m","a","i","l","t","o">>
tMailtoClose == <<":","a",">">>
tAddr == <<"a","@","b">>
tBracketed == <<" ","<","a","@","b",">">>
tGap == <<" ","\t">>
tName == <<"J","o">>

CleanPieces == {tMailtoOpen, tMailtoClose, tAddr, tBracketed, tGap, tName}

MaxCleanPieces == 4

\* Pieces the date texts are made of.
dWeekday == <<"M","o","n">>
dComma == <<",">>
dDay == <<"1","/","2">>
dOther == <<"3","/","4">>
dJunk == <<"x">>
dSpace == <<" ">>

DatePieces == {dWeekday, dComma, dDay, dOther, dJunk, dSpace}

MaxDatePieces == 4

RECURSIVE Concat(_)
Concat(ps) == IF Len(ps) = 0 THEN <<>> ELSE ps[1] \o Concat(Tail(ps))

CleanTexts ==
    {Concat(ps) : ps \in UNION {[1..n -> CleanPieces] : n \in 0..MaxCleanPieces}}

DateTexts ==
    {Concat(ps) : ps \in UNION {[1..n -> DatePieces] : n \in 0..MaxDatePieces}}

InitParts ==
    /\ \/ pc = "section" /\ section \in Sections /\ text = <<>>
       \/ pc = "text" /\ text \in CleanTexts \cup DateTexts /\ section = <<>>
    /\ body = <<>>
    /\ sourceFile \in SourceFiles
    /\ boundaries = <<>>
    /\ calls = <<>>
    /\ result = <<>>
    /\ extracted = <<>>
    /\ cleaned = <<>>
    /\ parsed = NullDate
    /\ emailsLeft = <<>>
    /\ history = <<>>
    /\ file = <<>>
    /\ resolved = <<>>
    /\ queue = <<>>
    /\ isProcessing = FALSE
    /\ currentFile = <<>>
    /\ inflight = {}
    /\ emailChain = <<>>
    /\ submitted = 0
    /\ fileEpoch = <<>>
    /\ epoch = 0
    /\ quiet = FALSE
    /\ handed = [added |-> <<>>, started |-> <<>>]
    /\ chainOp = [op |-> "none", n |-> 0]
    /\ addedSince = <<>>
    /\ sorted = <<>>

ExtractEmailFromSection ==
    /\ pc = "section"
    /\ extracted' = extractEmailFromSection(section)
    /\ pc' = "extracted"
    /\ UNCHANGED <<body, sourceFile, boundaries, calls, result, section, text,
                   cleaned, parsed>>
    /\ UNCHANGED callVars
    /\ UNCHANGED msgVars
    /\ UNCHANGED appVars
    /\ UNCHANGED chainVars

\* cleaned lists the successive outputs: the cleaner applied to text, then
\* to its own output.
CleanEmailText ==
    /\ pc \in {"text", "cleaned"}
    /\ Len(cleaned) < 2
    /\ cleaned' = Append(cleaned,
                     cleanEmailText(IF cleaned = <<>> THEN text
                                    ELSE cleaned[Len(cleaned)]))
    /\ pc' = "cleaned"
    /\ UNCHANGED <<body, sourceFile, boundaries, calls, result, section,
                   extracted, text, parsed>>
    /\ UNCHANGED callVars
    /\ UNCHANGED msgVars
    /\ UNCHANGED appVars
    /\ UNCHANGED chainVars

ParseFlexibleDate ==
    /\ pc = "text"
    /\ parsed' = parseFlexibleDate(text)
    /\ pc' = "parsed"
    /\ UNCHANGED <<body, sourceFile, boundaries, calls, result, section,
                   extracted, text, cleaned>>
    /\ UNCHANGED callVars
    /\ UNCHANGED msgVars
    /\ UNCHANGED appVars
    /\ UNCHANGED chainVars

NextParts == ExtractEmailFromSection \/ CleanEmailText \/ ParseFlexibleDate

SpecParts == InitParts /\ [][NextParts]_vars

-----------------------------------------------------------------------------
(* Specification SpecMsg: one call of parseMsgFile on a file.              *)

lUnderscores ==
    <<"_","_","_","_","_","_","_","_","_","_","_","_","_","_","_","_","_",
      "_","_","_">>
lDateLine == <<"D","a","t","e",":"," ","3","/","4">>

\* Lines the bodies of the files are made of: a From: header, a Sent:
\* header and a Date: header the host parses, a line of text, a run of
\* exactly 20 underscores, a run of 19, a blank line.
MsgBodyLines == {lFrom, lSent, lDateLine, lText, lUnderscores, lShortRun, lBlank}

MaxMsgBodyLines == 3

\* Every body of up to MaxMsgBodyLines lines, the two-message body of the
\* specification, a chain of two messages of two lines each, a chain of
\* three, and a chain of two with a section in between that is no message.
MsgBodies ==
    {Join(ls, <<NL>>) :
        ls \in UNION {[1..n -> MsgBodyLines] : n \in 1..MaxMsgBodyLines}}
    \cup {TwoMessageBody,
          Join(<<lFrom, lSent, lUnderscores, lFrom, lDateLine>>, <<NL>>),
          Join(<<lFrom, lSent, lText, lUnderscores, lFrom, lDateLine,
                 lUnderscores, lFrom, lSent>>, <<NL>>),
          Join(<<lFrom, lSent, lUnderscores, lText, lUnderscores, lFrom,
                 lDateLine, lText>>, <<NL>>)}

\* The fields the reader returns besides the body: a message with sender,
\* recipients, delivery time and an attachment, and one with none of them.
FullData(b) ==
    [subject |-> <<"H","e","y">>, senderName |-> <<"J","o">>,
     senderEmail |-> <<"a","@","x">>,
     recipients |-> <<[name |-> <<"B">>, email |-> <<"b","@","x">>, recipType |-> 1],
                      [name |-> <<>>, email |-> <<"c","@","x">>, recipType |-> 2],
                      [name |-> <<"D">>, email |-> <<>>, recipType |-> 1]>>,
     messageDeliveryTime |-> <<"1","/","2">>, clientSubmitTime |-> <<"3","/","4">>,
     body |-> b,
     attachments |-> <<[fileName |-> <<"f">>, name |-> <<"n">>],
                       [fileName |-> <<>>, name |-> <<>>]>>]

BareData(b) ==
    [subject |-> <<>>, senderName |-> <<>>, senderEmail |-> <<>>,
     recipients |-> <<>>, messageDeliveryTime |-> <<>>,
     clientSubmitTime |-> <<"x">>, body |-> b, attachments |-> <<>>]

MsgFiles ==
    {[name |-> "a.msg", readable |-> r, data |-> d] :
        r \in BOOLEAN,
        d \in {FullData(b) : b \in MsgBodies} \cup {BareData(b) : b \in MsgBodies}}

InitMsg ==
    /\ pc = "file"
    /\ file \in {<<f>> : f \in MsgFiles}
    /\ resolved = <<>>
    /\ body = <<>>
    /\ sourceFile \in SourceFiles
    /\ boundaries = <<>>
    /\ calls = <<>>
    /\ result = <<>>
    /\ section = <<>>
    /\ extracted = <<>>
    /\ text = <<>>
    /\ cleaned = <<>>
    /\ parsed = NullDate
    /\ emailsLeft = <<>>
    /\ history = <<>>
    /\ queue = <<>>
    /\ isProcessing = FALSE
    /\ currentFile = <<>>
    /\ inflight = {}
    /\ emailChain = <<>>
    /\ submitted = 0
    /\ fileEpoch = <<>>
    /\ epoch = 0
    /\ quiet = FALSE
    /\ handed = [added |-> <<>>, started |-> <<>>]
    /\ chainOp = [op |-> "none", n |-> 0]
    /\ addedSince = <<>>
    /\ sorted = <<>>

\* parseMsgFile(file), from the call to the settling of its promise;
\* result keeps what the chain parser returned.
ParseMsgFile ==
    /\ pc = "file"
    /\ \E run \in {parseMsgFile(file[1])} :
          /\ pc' = IF run.resolves THEN "resolved" ELSE "rejected"
          /\ result' = run.chain
          /\ resolved' = run.emails
    /\ UNCHANGED <<body, sourceFile, boundaries, calls, section, extracted,
                   text, cleaned, parsed, file>>
    /\ UNCHANGED callVars
    /\ UNCHANGED appVars
    /\ UNCHANGED chainVars

NextMsg == ParseMsgFile

SpecMsg == InitMsg /\ [][NextMsg]_vars

-----------------------------------------------------------------------------
(* Specification SpecApp: the application, its user dropping files and     *)
(* clicking Clear All while files are read.                                *)

MaxFiles == 3
MaxDrop == 2

ChainBody == Join(<<lFrom, lSent, lUnderscores, lFrom, lDateLine>>, <<NL>>)

\* The n-th file submitted, of a kind: a chain of two messages, a single
\* message under an upper-case extension, a file the reader rejects, a
\* file that is no .msg file.
AppFile(n, kind) ==
    CASE kind = "chain" ->
           [name |-> <<Digits[n]>> \o pMsg, readable |-> TRUE,
            data |-> BareData(ChainBody)]
      [] kind = "whole" ->
           [name |-> <<Digits[n], ".", "M", "S", "G">>, readable |-> TRUE,
            data |-> FullData(lText)]
      [] kind = "corrupt" ->
           [name |-> <<Digits[n]>> \o pMsg, readable |-> FALSE,
            data |-> BareData(<<>>)]
      [] kind = "other" ->
           [name |-> <<Digits[n], ".", "t", "x", "t">>, readable |-> TRUE,
            data |-> BareData(<<>>)]

FileKinds == {"chain", "whole", "corrupt", "other"}

\* The number of the file a name or a source label belongs to.
SerialOf(name) == CHOOSE n \in 1..Len(Digits) : Digits[n] = name[1]

InitApp ==
    /\ pc = "app"
    /\ queue = <<>>
    /\ isProcessing = FALSE
    /\ currentFile = <<>>
    /\ inflight = {}
    /\ emailChain = <<>>
    /\ submitted = 0
    /\ fileEpoch = <<>>
    /\ epoch = 0
    /\ quiet = FALSE
    /\ handed = [added |-> <<>>, started |-> <<>>]
    /\ chainOp = [op |-> "none", n |-> 0]
    /\ addedSince = <<>>
    /\ sorted = <<>>
    /\ body = <<>>
    /\ sourceFile \in SourceFiles
    /\ boundaries = <<>>
    /\ calls = <<>>
    /\ result = <<>>
    /\ section = <<>>
    /\ extracted = <<>>
    /\ text = <<>>
    /\ cleaned = <<>>
    /\ parsed = NullDate
    /\ emailsLeft = <<>>
    /\ history = <<>>
    /\ file = <<>>
    /\ resolved = <<>>

QueueFields ==
    [queue |-> queue, isProcessing |-> isProcessing,
     currentFile |-> currentFile, inflight |-> inflight]

\* handleFiles(files): the user drops or selects files.
HandleFiles ==
    /\ pc = "app"
    /\ \E n \in 1..MaxDrop :
          /\ submitted + n <= MaxFiles
          /\ \E kinds \in [1..n -> FileKinds] :
                \E files \in {[k \in 1..n |-> AppFile(submitted + k, kinds[k])]} :
                   \E st \in {IF Len(MsgFilesOf(files)) = 0 THEN QueueFields
                              ELSE addFiles(QueueFields, MsgFilesOf(files))} :
                      /\ queue' = st.queue
                      /\ isProcessing' = st.isProcessing
                      /\ currentFile' = st.currentFile
                      /\ inflight' = st.inflight
                      /\ handed' =
                            [added |-> handed.added \o MsgFilesOf(files),
                             started |-> handed.started
                                           \o Started(inflight, st.inflight)]
          /\ submitted' = submitted + n
          /\ fileEpoch' = fileEpoch \o [k \in 1..n |-> epoch]
    /\ quiet' = FALSE
    /\ UNCHANGED <<emailChain, epoch>>
    /\ UNCHANGED <<pc, body, sourceFile, boundaries, calls, result, section,
                   extracted, text, cleaned, parsed>>
    /\ UNCHANGED callVars
    /\ UNCHANGED msgVars
    /\ UNCHANGED chainVars

\* The read of a file in flight settles: processFile adds what parseMsgFile
\* resolved to, and processNext goes on with the queue.
ProcessorSettles ==
    /\ pc = "app"
    /\ \E f \in inflight :
          /\ emailChain' = ProcessedInto(emailChain, parseMsgFile(f))
          /\ \E st \in {processNext(queue, inflight \ {f})} :
                /\ queue' = st.queue
                /\ isProcessing' = st.isProcessing
                /\ currentFile' = st.currentFile
                /\ inflight' = st.inflight
                /\ handed' =
                      [handed EXCEPT
                          !.started = @ \o Started(inflight \ {f}, st.inflight)]
    /\ UNCHANGED <<submitted, fileEpoch, epoch, quiet>>
    /\ UNCHANGED <<pc, body, sourceFile, boundaries, calls, result, section,
                   extracted, text, cleaned, parsed>>
    /\ UNCHANGED callVars
    /\ UNCHANGED msgVars
    /\ UNCHANGED chainVars

\* clearAll(): the user clicks Clear All while the chain holds an email,
\* and confirms or not.  With an empty chain the handler returns at once.
ClearAll ==
    /\ pc = "app"
    /\ getCount(emailChain) # 0
    /\ \E confirmed \in BOOLEAN :
          IF confirmed
          THEN /\ emailChain' = <<>>
               /\ queue' = <<>>
               /\ currentFile' = <<>>
               /\ isProcessing' = ClearedIsProcessing(isProcessing)
               /\ epoch' = epoch + 1
               /\ quiet' = TRUE
          ELSE UNCHANGED <<emailChain, queue, currentFile, isProcessing, epoch,
                           quiet>>
    /\ UNCHANGED <<inflight, submitted, fileEpoch, handed>>
    /\ UNCHANGED <<pc, body, sourceFile, boundaries, calls, result, section,
                   extracted, text, cleaned, parsed>>
    /\ UNCHANGED callVars
    /\ UNCHANGED msgVars
    /\ UNCHANGED chainVars

NextApp == HandleFiles \/ ProcessorSettles \/ ClearAll

SpecApp == InitApp /\ [][NextApp]_vars

\* Specification SpecQueue: the same application when Clear All is never
\* clicked and every read of a file settles.
NextQueue == HandleFiles \/ ProcessorSettles

\* What ProcessorSettles does to the calls in flight.  Without clear, a
\* file is handed over by HandleFiles only when no call is in flight, so
\* the steps of NextQueue that satisfy Settles are the ProcessorSettles
\* steps, and Settles is enabled exactly when ProcessorSettles is.
Settles ==
    /\ pc = "app"
    /\ \E f \in inflight :
          inflight' = processNext(queue, inflight \ {f}).inflight

\* Every call in flight settles: the promise of a processor call is
\* settled by the host's file reader, whose reaction runs once the event
\* loop is free.
SpecQueue == InitApp /\ [][NextQueue]_vars /\ WF_inflight(Settles)

-----------------------------------------------------------------------------
(* Specification SpecChain: addEmail and clear called on an EmailChain, in *)
(* any order, each followed by its render.                                 *)

LongBodyChars == 101

\* A body of LongBodyChars characters that ends with the character last.
LongBody(last) ==
    [k \in 1..LongBodyChars |-> IF k = LongBodyChars THEN last ELSE "x"]

Email(date, subject, from, to, b) ==
    [from |-> from, to |-> to, cc |-> <<>>, date |-> date, subject |-> subject,
     body |-> b, attachments |-> <<>>, sourceFile |-> <<"1">> \o pMsg]

\* An email dated before the epoch; the same with another recipient; the
\* same from another sender; one without date; one dated at the epoch; two
\* dated after it whose bodies differ in their last character only; two
\* whose subject and sender differ and join to the same string.
ChainEmails ==
    {Email(1, <<"H","i">>, <<"a">>, <<"b">>, <<"x">>),
     Email(1, <<"H","i">>, <<"a">>, <<"c">>, <<"x">>),
     Email(1, <<"H","i">>, <<"b">>, <<"b">>, <<"x">>),
     Email(NullDate, <<"H","i">>, <<"a">>, <<"b">>, <<"x">>),
     Email(EpochInstant, <<"H","i">>, <<"a">>, <<"b">>, <<"x">>),
     Email(3, <<"H","i">>, <<"a">>, <<"b">>, LongBody("y")),
     Email(3, <<"H","i">>, <<"a">>, <<"b">>, LongBody("z")),
     Email(3, <<"s","|","|","|","t">>, <<"a">>, <<"b">>, <<"x">>),
     Email(3, <<"s">>, <<"t","|","|","|","a">>, <<"b">>, <<"x">>)}

MaxChainOps == 4

InitChain ==
    /\ pc = "chain"
    /\ emailChain = <<>>
    /\ chainOp = [op |-> "none", n |-> 0]
    /\ addedSince = <<>>
    /\ sorted = <<>>
    /\ queue = <<>>
    /\ isProcessing = FALSE
    /\ currentFile = <<>>
    /\ inflight = {}
    /\ submitted = 0
    /\ fileEpoch = <<>>
    /\ epoch = 0
    /\ quiet = FALSE
    /\ handed = [added |-> <<>>, started |-> <<>>]
    /\ body = <<>>
    /\ sourceFile \in SourceFiles
    /\ boundaries = <<>>
    /\ calls = <<>>
    /\ result = <<>>
    /\ section = <<>>
    /\ extracted = <<>>
    /\ text = <<>>
    /\ cleaned = <<>>
    /\ parsed = NullDate
    /\ emailsLeft = <<>>
    /\ history = <<>>
    /\ file = <<>>
    /\ resolved = <<>>

\* addEmail(email), with the render that follows an addition.
AddEmail ==
    /\ pc = "chain"
    /\ chainOp.n < MaxChainOps
    /\ \E email \in ChainEmails :
          \E r \in {addEmail(emailChain, email)} :
             /\ emailChain' = r.emails
             /\ chainOp' = [op |-> "add", n |-> chainOp.n + 1, email |-> email,
                            before |-> emailChain, added |-> r.added]
             /\ addedSince' = Append(addedSince, email)
             /\ sorted' = IF r.added THEN getSortedEmails(r.emails) ELSE sorted
    /\ UNCHANGED <<queue, isProcessing, currentFile, inflight, submitted,
                   fileEpoch, epoch, quiet, handed>>
    /\ UNCHANGED <<pc, body, sourceFile, boundaries, calls, result, section,
                   extracted, text, cleaned, parsed>>
    /\ UNCHANGED callVars
    /\ UNCHANGED msgVars

\* clear(), with its render.
ClearChain ==
    /\ pc = "chain"
    /\ chainOp.n < MaxChainOps
    /\ emailChain' = <<>>
    /\ chainOp' = [op |-> "clear", n |-> chainOp.n + 1]
    /\ addedSince' = <<>>
    /\ sorted' = getSortedEmails(<<>>)
    /\ UNCHANGED <<queue, isProcessing, currentFile, inflight, submitted,
                   fileEpoch, epoch, quiet, handed>>
    /\ UNCHANGED <<pc, body, sourceFile, boundaries, calls, result, section,
                   extracted, text, cleaned, parsed>>
    /\ UNCHANGED callVars
    /\ UNCHANGED msgVars

NextChain == AddEmail \/ ClearChain

SpecChain == InitChain /\ [][NextChain]_vars

-----------------------------------------------------------------------------
(* Specification SpecCalls: parseForwardedChain called again and again,    *)
(* on any body and source label, in any order.                             *)

SingleMessageBody == Join(<<lFrom, lSubject, lText>>, <<NL>>)
RepliedBody == Join(<<lFrom, lSubject, lOnWrote, lFrom, lSent, lText>>, <<NL>>)

\* A chain of two messages, a second one, one message alone (one record is
\* built and none returned), a body without boundary, the empty body.
CallBodies == {TwoMessageBody, RepliedBody, SingleMessageBody, lText, <<>>}

CallSourceFiles == {"a.msg", "b.msg"}

MaxCalls == 3

InitCalls ==
    /\ pc = "idle"
    /\ body = <<>>
    /\ sourceFile \in SourceFiles
    /\ boundaries = <<>>
    /\ calls = <<>>
    /\ result = <<>>
    /\ section = <<>>
    /\ extracted = <<>>
    /\ text = <<>>
    /\ cleaned = <<>>
    /\ parsed = NullDate
    /\ emailsLeft = <<>>
    /\ history = <<>>
    /\ file = <<>>
    /\ resolved = <<>>
    /\ queue = <<>>
    /\ isProcessing = FALSE
    /\ currentFile = <<>>
    /\ inflight = {}
    /\ emailChain = <<>>
    /\ submitted = 0
    /\ fileEpoch = <<>>
    /\ epoch = 0
    /\ quiet = FALSE
    /\ handed = [added |-> <<>>, started |-> <<>>]
    /\ chainOp = [op |-> "none", n |-> 0]
    /\ addedSince = <<>>
    /\ sorted = <<>>

\* One more call, from entry to return.
CallParseForwardedChain ==
    /\ pc = "idle"
    /\ Len(history) < MaxCalls
    /\ \E b \in CallBodies, sf \in CallSourceFiles :
          \E run \in {ChainRun(b, sf)} :
             /\ body' = b
             /\ sourceFile' = sf
             /\ boundaries' = run.boundaries
             /\ calls' = run.calls
             /\ result' = run.result
             /\ emailsLeft' = run.emails
             /\ history' = Append(history,
                               [body |-> b, sourceFile |-> sf,
                                result |-> run.result])
    /\ UNCHANGED <<pc, section, extracted, text, cleaned, parsed>>
    /\ UNCHANGED msgVars
    /\ UNCHANGED appVars
    /\ UNCHANGED chainVars

NextCalls == CallParseForwardedChain

SpecCalls == InitCalls /\ [][NextCalls]_vars

-----------------------------------------------------------------------------
(* Properties of the chain coordinator and the boundary detector, checked  *)
(* under Spec.                                                             *)

\* The validity invariant of an extracted email, as the data model states
\* it.
ClaimValid(e) ==
    /\ e.from # <<>> \/ e.to # <<>>
    /\ e.date # NullDate \/ e.subject # <<>>

\* A trimmed line made of 20 or more underscores and hyphens only.
ClaimSeparatorLine(t) ==
    Len(t) >= 20 /\ \A k \in 1..Len(t) : t[k] = "_" \/ t[k] = "-"

\* A trimmed line that starts with From: and has content after it.
ClaimFromLine(t) == MatchAtCI(t, 1, pFrom) /\ Len(t) > 5

LastLine(s) == Split(s)[Len(Split(s))]

HasLine(s, line) == \E k \in 1..Len(Split(s)) : Split(s)[k] = line

\* C1: parseForwardedChain returns the empty sequence or a sequence of at
\* least 2 records, never exactly one record.
C1_NeverSingleRecord ==
    pc = "done" => Len(result) = 0 \/ Len(result) >= 2

\* C1 witness: exactly one section validated and the run returned nothing.
C1_Witness ==
    /\ pc = "done"
    /\ Cardinality({k \in 1..Len(calls) : calls[k].email # <<>>}) = 1
    /\ Len(calls) >= 2
    /\ result = <<>>

C3_SeparatorConsumed ==
    pc = "done" /\ result # <<>> =>
        \A k \in 1..(Len(calls) - 1) :
            /\ calls[k].email # <<>>
            /\ calls[k + 1].email # <<>>
            /\ ClaimSeparatorLine(Trim(LastLine(calls[k].section)))
            => ~ClaimSeparatorLine(Trim(LastLine(calls[k].email[1].body)))

\* No line of the body matches one of the three boundary patterns.
NoBoundaryPattern(b) ==
    \A k \in 1..Len(Split(b)) :
        LET t == Trim(Split(b)[k])
        IN  ~ClaimFromLine(t) /\ ~OnWroteRegex(t) /\ ~ClaimSeparatorLine(t)

\* C4: a body without a From: line with content, without an "On ... wrote:"
\* line and without a separator line of 20 or more characters has no
\* boundaries and gives the empty chain; so does the empty body.
C4_NoBoundaryEmptyChain ==
    pc = "done" /\ NoBoundaryPattern(body) =>
        /\ identifyMessageBoundaries(body) = <<>>
        /\ boundaries = <<>>
        /\ result = <<>>

\* C4 witness: a body without pattern that holds the near misses, a run of
\* 19 characters and a From: without content.
C4_Witness ==
    /\ pc = "done"
    /\ NoBoundaryPattern(body)
    /\ HasLine(body, lShortRun)
    /\ HasLine(body, lFromBare)
    /\ result = <<>>

\* C5: the offsets returned by identifyMessageBoundaries are non-decreasing.
C5_NonDecreasing ==
    pc = "done" =>
        \A i, j \in 1..Len(boundaries) : i < j => boundaries[i] <= boundaries[j]

\* C5 witness: a separator line directly followed by a line that is a
\* boundary itself, which gives the same offset twice.
C5_Witness ==
    /\ pc = "done"
    /\ \E i \in 1..(Len(boundaries) - 1) :
          boundaries[i] = boundaries[i + 1] /\ boundaries[i] > 0

\* C6: every offset returned by identifyMessageBoundaries lies in
\* 0..length(body).
C6_OffsetsInBody ==
    pc = "done" =>
        \A k \in 1..Len(boundaries) :
            0 <= boundaries[k] /\ boundaries[k] <= Len(body)

\* C7: the records returned are the records of the sections that validated,
\* in the order of the sections in the body, and the sections are handed
\* over by ascending start offset.
C7_TextOrder ==
    pc = "done" =>
        LET ok == SelectSeq(calls, LAMBDA c : c.email # <<>>)
        IN  /\ \A j, k \in 1..Len(calls) :
                  j < k => calls[j].start < calls[k].start
            /\ result # <<>> =>
                  /\ Len(result) = Len(ok)
                  /\ \A k \in 1..Len(ok) :
                        result[k] = Stamp(ok[k].email[1], sourceFile)

\* C7 witness: a chain of two different records.
C7_Witness ==
    /\ pc = "done"
    /\ Len(result) >= 2
    /\ result[1] # result[2]

-----------------------------------------------------------------------------
(* Properties of the cleaner, the date parser and the extractor, checked   *)
(* under SpecParts.                                                        *)

\* s holds a substring <mailto:ADDR>, ADDR non-empty and without '>'.
HasMailtoForm(s) ==
    \E k \in 1..Len(s) :
        /\ MatchAt(s, k, pMailto)
        /\ \E j \in (k + 9)..Len(s) :
              s[j] = ">" /\ \A i \in (k + 8)..(j - 1) : s[i] # ">"

\* C8: cleanEmailText is idempotent, clean(clean(x)) = clean(x).
C8_Idempotent ==
    Len(cleaned) = 2 => cleaned[2] = cleaned[1]

\* C9: cleanEmailText deletes every <mailto:ADDR> entirely: a name followed
\* by a mailto decoration is cleaned to the name, and the output holds no
\* substring of that form.
C9_NoMailtoLeft ==
    Len(cleaned) >= 1 =>
        /\ ~HasMailtoForm(cleaned[1])
        /\ text = tName \o tGap \o tMailtoOpen \o tMailtoClose => cleaned[1] = tName

\* The host parses s neither as it is nor with the weekday stripped.
Unparseable(s) ==
    HostDateParse(s) = NaNDate /\ HostDateParse(StripWeekday(s)) = NaNDate

DateHeaderLines(sec) ==
    {k \in 1..Len(Split(sec)) : HeaderType(Trim(Split(sec)[k])) \in {"date", "sent"}}

\* The section has Date:/Sent: headers, and the value of each of them (3
\* characters or more, so that no line is merged into it) cannot be parsed.
OnlyUnparseableDates(sec) ==
    /\ DateHeaderLines(sec) # {}
    /\ \A k \in DateHeaderLines(sec) :
          LET t == Trim(Split(sec)[k])
              v == HeaderRawValue(t, HeaderType(t))
          IN  Len(v) >= 3 /\ Unparseable(cleanEmailText(v))

\* C10: a Date:/Sent: header whose value cannot be parsed leaves the date
\* null and does not abort the extraction: the section still yields a
\* record when from or to is non-empty and subject is non-empty; and
\* parseFlexibleDate returns null, never an invalid date, for an empty or
\* unparseable string.
C10_UnparseableDateIsNull ==
    /\ pc = "extracted" /\ OnlyUnparseableDates(section) =>
          LET f == ParsedFields(section)
          IN  /\ f.date = NullDate
              /\ (f.from # <<>> \/ f.to # <<>>) /\ f.subject # <<>> =>
                    extracted # <<>> /\ extracted[1].date = NullDate
    /\ pc = "parsed" =>
          /\ parsed # NaNDate
          /\ text = <<>> \/ Unparseable(text) => parsed = NullDate

\* C10 witness: a section with an unparseable date that yielded a record.
C10_Witness ==
    /\ pc = "extracted"
    /\ OnlyUnparseableDates(section)
    /\ extracted # <<>>
    /\ extracted[1].date = NullDate
    /\ extracted[1].subject # <<>>

-----------------------------------------------------------------------------
(* Properties of the three boundary patterns, checked under Spec.          *)

\* The offset the k-th line of the body starts at.
RECURSIVE ClaimLineStart(_, _)
ClaimLineStart(ls, k) ==
    IF k = 1 THEN 0 ELSE ClaimLineStart(ls, k - 1) + Len(ls[k - 1]) + 1

\* How many times the offset v is in the boundary list.
ClaimCount(bnds, v) == Cardinality({k \in 1..Len(bnds) : bnds[k] = v})

\* A trimmed line that starts with To:, Date:, Sent:, Cc: or Subject:, in
\* any case.
ClaimOtherHeader(t) ==
    \E p \in {<<"t","o",":">>, <<"d","a","t","e",":">>, <<"s","e","n","t",":">>,
              <<"c","c",":">>, <<"s","u","b","j","e","c","t",":">>} :
        /\ Len(t) >= Len(p)
        /\ \A j \in 1..Len(p) : Lower(t[j]) = p[j]

\* The line before the k-th is a separator line, whose boundary is the
\* offset the k-th line starts at.
ClaimAfterSeparator(ls, k) == k > 1 /\ ClaimSeparatorLine(Trim(ls[k - 1]))

\* A boundary was recorded before the scan reached the k-th line.
ClaimRecordedEarlier(ls, k, bnds) ==
    \/ \E j \in 1..Len(bnds) : bnds[j] < ClaimLineStart(ls, k)
    \/ ClaimAfterSeparator(ls, k)

\* One of the n lines after the k-th is a header line.
ClaimHeaderWithin(ls, k, n) ==
    \E j \in (k + 1)..(k + n) : j <= Len(ls) /\ ClaimOtherHeader(Trim(ls[j]))

\* The boundaries at the start of the k-th line that the line itself
\* recorded.
ClaimRecordedAtStart(ls, k, bnds) ==
    ClaimCount(bnds, ClaimLineStart(ls, k))
        - (IF ClaimAfterSeparator(ls, k) THEN 1 ELSE 0)

\* Every From: line with content among the lines ls accounts for one
\* boundary of bnds, at its start offset, when no boundary was recorded
\* earlier or a header line is among the next 5 lines, and for none
\* otherwise.
ClaimFromLinesRecorded(ls, bnds) ==
    \A k \in 1..Len(ls) :
        ClaimFromLine(Trim(ls[k])) =>
            ClaimRecordedAtStart(ls, k, bnds) =
                (IF \/ ~ClaimRecordedEarlier(ls, k, bnds)
                    \/ ClaimHeaderWithin(ls, k, 5)
                 THEN 1 ELSE 0)

\* C17: a line that is From: followed by content produces a boundary at its
\* start offset iff no boundary was recorded earlier in the scan or one of
\* the next 5 lines starts with To:, Date:, Sent:, Cc: or Subject:.
C17_FromLineBoundary ==
    pc = "done" /\ body # <<>> => ClaimFromLinesRecorded(Split(body), boundaries)

\* C17 witness: after an earlier boundary, a From: line whose only header
\* line is the 5th line after it produced a boundary.
C17_Witness ==
    /\ pc = "done"
    /\ \E k \in 2..Len(Split(body)) :
          /\ ClaimFromLine(Trim(Split(body)[k]))
          /\ ClaimRecordedEarlier(Split(body), k, boundaries)
          /\ ~ClaimHeaderWithin(Split(body), k, 4)
          /\ ClaimHeaderWithin(Split(body), k, 5)
          /\ ClaimRecordedAtStart(Split(body), k, boundaries) = 1

\* C17 witness of the refusal: after an earlier boundary, a From: line
\* whose only header line is the 6th line after it produced none.
C17_WitnessFar ==
    /\ pc = "done"
    /\ \E k \in 2..Len(Split(body)) :
          /\ ClaimFromLine(Trim(Split(body)[k]))
          /\ ClaimRecordedEarlier(Split(body), k, boundaries)
          /\ ~ClaimHeaderWithin(Split(body), k, 5)
          /\ ClaimHeaderWithin(Split(body), k, 6)
          /\ ClaimRecordedAtStart(Split(body), k, boundaries) = 0

\* A trimmed line that fully matches "On <anything> wrote:", in any case:
\* "on", white space, at least one character, white space, "wrote:".
ClaimOnWroteLine(t) ==
    /\ Len(t) >= 11
    /\ Lower(t[1]) = "o" /\ Lower(t[2]) = "n" /\ IsWS(t[3])
    /\ \A j \in 1..6 : Lower(t[Len(t) - 6 + j]) = <<"w","r","o","t","e",":">>[j]
    /\ IsWS(t[Len(t) - 6])
    /\ \E j \in 4..(Len(t) - 7) : \A i \in 3..(j - 1) : IsWS(t[i])
    /\ \A j \in 1..Len(t) : t[j] # NL /\ t[j] # CR

\* The boundaries the k-th line records at its own start: one for a From:
\* line that qualifies, one for a quote introducer.
ClaimRecordsAtOwnStart(ls, k, bnds) ==
    IF k > Len(ls) THEN 0
    ELSE IF ClaimFromLine(Trim(ls[k]))
    THEN (IF \/ ~ClaimRecordedEarlier(ls, k, bnds)
             \/ ClaimHeaderWithin(ls, k, 5)
          THEN 1 ELSE 0)
    ELSE IF ClaimOnWroteLine(Trim(ls[k])) THEN 1
    ELSE 0

\* The offset right after the k-th line and its newline.
ClaimAfterLine(ls, k) == ClaimLineStart(ls, k) + Len(ls[k]) + 1

\* The greatest boundary below the offset v.
ClaimBoundaryBelow(bnds, v) ==
    CHOOSE b \in {bnds[j] : j \in 1..Len(bnds)} :
        b < v /\ \A j \in 1..Len(bnds) : bnds[j] < v => bnds[j] <= b

\* The section of the call that starts at the offset b ends with the
\* trimmed line t.
ClaimSectionEndsWith(cs, b, t) ==
    \E c \in 1..Len(cs) : cs[c].start = b /\ Trim(LastLine(cs[c].section)) = t

\* The k-th of the lines ls, whose end offset is v: one boundary at v when
\* it is a separator line (what the next line records there counted apart),
\* none otherwise; and a separator line ends the section that precedes v.
ClaimSeparatorAt(ls, bnds, cs, k, v, isSeparator) ==
    /\ ClaimCount(bnds, v) - ClaimRecordsAtOwnStart(ls, k + 1, bnds)
         = (IF isSeparator THEN 1 ELSE 0)
    /\ (isSeparator /\ \E j \in 1..Len(bnds) : bnds[j] < v)
       => ClaimSectionEndsWith(cs, ClaimBoundaryBelow(bnds, v), Trim(ls[k]))

ClaimSeparatorsRecorded(ls, bnds, cs) ==
    \A k \in 1..Len(ls) :
        ClaimSeparatorAt(ls, bnds, cs, k, ClaimAfterLine(ls, k),
                         ClaimSeparatorLine(Trim(ls[k])))

\* C18: a line that is a run of 20 or more underscores and hyphens
\* produces a boundary at the start offset of the following line, and when
\* a section precedes that boundary the separator line is its last line;
\* a shorter run, or a line with another character, produces none.
C18_SeparatorBoundary ==
    pc = "done" /\ body # <<>> =>
        ClaimSeparatorsRecorded(Split(body), boundaries, calls)

\* C18 witness: a separator line set in white space, after a message,
\* produced the boundary of a second message and ended the section of the
\* first.
C18_Witness ==
    /\ pc = "done"
    /\ \E k \in 2..(Len(Split(body)) - 1) :
          /\ Split(body)[k] = lPaddedRun
          /\ boundaries = <<0, ClaimAfterLine(Split(body), k)>>
          /\ Len(calls) = 2
          /\ LastLine(calls[1].section) = SubSeq(lPaddedRun, 1, 21)
          /\ Len(result) = 2

\* Every quote introducer among the lines ls accounts for one boundary of
\* bnds at its start offset.
ClaimIntroducersRecorded(ls, bnds) ==
    \A k \in 1..Len(ls) :
        ClaimOnWroteLine(Trim(ls[k])) => ClaimRecordedAtStart(ls, k, bnds) = 1

\* When the lines ls of a section start with a quote introducer, the
\* record got from the section is the record of the section without the
\* line, and the line is in none of its fields.
ClaimIntroducerSkipped(ls, got) ==
    ClaimOnWroteLine(Trim(ls[1])) =>
        /\ got # <<>> =>
              \A f \in {got[1].from, got[1].to, got[1].cc, got[1].subject,
                        got[1].body} :
                  \A i \in 1..Len(f) : ~MatchAt(f, i, Trim(ls[1]))
        /\ Len(ls) > 1 => got = extractEmailFromSection(Join(Tail(ls), <<NL>>))

\* C19: a line that fully matches "On <anything> wrote:" produces a
\* boundary at its start offset, and the extractor skips it in the section
\* that begins there: the fields are those of the section without the
\* line, and the line is in none of them.
C19_OnWroteBoundary ==
    pc = "done" /\ body # <<>> =>
        /\ ClaimIntroducersRecorded(Split(body), boundaries)
        /\ \A c \in 1..Len(calls) :
              ClaimIntroducerSkipped(Split(calls[c].section), calls[c].email)

\* C19 witness: a quote introducer set in white space, after a message,
\* produced the boundary of a second message, which was extracted from the
\* To: and Subject: lines under it.
C19_Witness ==
    /\ pc = "done"
    /\ \E k \in 2..(Len(Split(body)) - 1) :
          /\ Split(body)[k] = lPaddedOnWrote
          /\ boundaries[2] = ClaimLineStart(Split(body), k)
          /\ \E c \in 1..Len(calls) :
                /\ calls[c].start = ClaimLineStart(Split(body), k)
                /\ Trim(Split(calls[c].section)[1]) = lOnWrote
                /\ calls[c].email # <<>>
                /\ calls[c].email[1].to = <<"b", "@", "x">>
                /\ calls[c].email[1].subject = <<"H", "e", "y">>

\* The boundary list without the offsets that repeat their predecessor.
RECURSIVE ClaimDedup(_)
ClaimDedup(bnds) ==
    IF Len(bnds) <= 1 THEN bnds
    ELSE IF bnds[1] = bnds[2] THEN ClaimDedup(Tail(bnds))
    ELSE <<bnds[1]>> \o ClaimDedup(Tail(bnds))

\* The slice that starts at the i-th boundary is empty: the next boundary
\* is equal, or the boundary lies at or past the end of the body.
ClaimEmptySlice(b, bnds, i) ==
    \/ i < Len(bnds) /\ bnds[i] = bnds[i + 1]
    \/ bnds[i] >= Len(b)

\* C24: when two consecutive boundaries are equal, or a boundary lies at
\* or past the end of the body, the extractor is not called for the slice
\* that starts there; the content is handed over once, for the last of the
\* equal offsets; the records returned are those the boundary list without
\* duplicates gives.
C24_DuplicatesTolerated ==
    pc = "done" /\ body # <<>> =>
        /\ \A c \in 1..Len(calls) :
              /\ boundaries[calls[c].index] = calls[c].start
              /\ ~ClaimEmptySlice(body, boundaries, calls[c].index)
        /\ \A c, d \in 1..Len(calls) :
              calls[c].start = calls[d].start => c = d
        /\ ClaimDedup(boundaries) # boundaries =>
              result = ChainOfBoundaries(body, sourceFile,
                                         ClaimDedup(boundaries)).result

\* C24 witness: the same offset twice, fewer calls than boundaries, and a
\* chain returned.
C24_Witness ==
    /\ pc = "done"
    /\ \E i \in 1..(Len(boundaries) - 1) : boundaries[i] = boundaries[i + 1]
    /\ Len(calls) < Len(boundaries)
    /\ Len(result) >= 2

\* C24 witness of an offset past the end of the body: no call for it.
C24_WitnessPastEnd ==
    /\ pc = "done"
    /\ Len(boundaries) >= 2
    /\ boundaries[Len(boundaries)] > Len(body)
    /\ calls # <<>>
    /\ \A c \in 1..Len(calls) : calls[c].index < Len(boundaries)

\* The offset at which the slice of the c-th call ends: the next boundary,
\* or the end of the body.
ClaimSliceEnd(b, bnds, cs, c) ==
    IF cs[c].index < Len(bnds) /\ bnds[cs[c].index + 1] <= Len(b)
    THEN bnds[cs[c].index + 1]
    ELSE Len(b)

\* The characters of b after the offset from and up to the offset to.
ClaimSlice(b, from, to) == SubSeq(b, from + 1, to)

\* Whether the text f holds the text t.
ClaimHasText(f, t) == \E i \in 1..Len(f) : MatchAt(f, i, t)

\* C27: the sections handed to the extractor are slices of the body, each
\* trimmed, that start at or after the first boundary, follow one another
\* without overlap and between them hold every character of the body from
\* the first boundary on that is not white space; every record comes from
\* its section alone, so the text before the first boundary is in no
\* section and in no record.
C27_SectionsPartition ==
    pc = "done" /\ boundaries # <<>> =>
        /\ \A c \in 1..Len(calls) :
              /\ calls[c].start >= boundaries[1]
              /\ calls[c].section =
                    Trim(ClaimSlice(body, calls[c].start,
                                    ClaimSliceEnd(body, boundaries, calls, c)))
              /\ calls[c].email = extractEmailFromSection(calls[c].section)
        /\ \A c, d \in 1..Len(calls) :
              c < d => ClaimSliceEnd(body, boundaries, calls, c) <= calls[d].start
        /\ \A q \in (boundaries[1] + 1)..Len(body) :
              ~IsWS(body[q]) =>
                  \E c \in 1..Len(calls) :
                      /\ calls[c].start < q
                      /\ q <= ClaimSliceEnd(body, boundaries, calls, c)
        /\ \A k \in 1..Len(result) :
              \E c \in 1..Len(calls) :
                  /\ calls[c].email # <<>>
                  /\ result[k] = Stamp(calls[c].email[1], sourceFile)

\* C27 witness: a To: line stood before the first boundary, two records
\* were returned, and its address is in none of them.
C27_Witness ==
    /\ pc = "done"
    /\ Split(body)[1] = lToLead
    /\ boundaries # <<>> /\ boundaries[1] = Len(lToLead) + 1
    /\ Len(result) = 2
    /\ \A k \in 1..Len(result) :
          /\ ~ClaimHasText(result[k].to, <<"l","@","y">>)
          /\ ~ClaimHasText(result[k].from, <<"l","@","y">>)
          /\ ~ClaimHasText(result[k].body, <<"l","@","y">>)

-----------------------------------------------------------------------------
(* Properties of header continuation, checked under SpecParts.             *)

\* The field a header type is stored in: Date: and Sent: share one.
ClaimField(type) == IF type = "sent" THEN "date" ELSE type

\* Whether the field of the header type holds what the header value gives:
\* the cleaned value, or for a date the instant parsed from it.
ClaimHolds(email, type, value) ==
    CASE type = "from" -> email.from = cleanEmailText(value)
      [] type = "to" -> email.to = cleanEmailText(value)
      [] type = "cc" -> email.cc = cleanEmailText(value)
      [] type = "subject" -> email.subject = cleanEmailText(value)
      [] type \in {"date", "sent"} ->
            email.date = parseFlexibleDate(cleanEmailText(value))

\* The value after the colon of the k-th line, a header line.
ClaimValueAt(ls, k) == HeaderRawValue(Trim(ls[k]), HeaderType(Trim(ls[k])))

\* A line that ends a continuation: empty, or a header line.
ClaimEnds(line) == Trim(line) = <<>> \/ HeaderType(Trim(line)) # "none"

\* Index of the first line after the first that ends a continuation, or
\* the number of lines plus one.
ClaimStop(ls) ==
    CHOOSE m \in 2..(Len(ls) + 1) :
        /\ m = Len(ls) + 1 \/ ClaimEnds(ls[m])
        /\ \A j \in 2..(m - 1) : ~ClaimEnds(ls[j])

\* The value of the first line joined by spaces with the lines up to the
\* one that ends the continuation.
ClaimMerged(ls) ==
    Join((IF ClaimValueAt(ls, 1) = <<>> THEN <<>> ELSE <<ClaimValueAt(ls, 1)>>)
            \o [j \in 1..(ClaimStop(ls) - 2) |-> Trim(ls[j + 1])], <<" ">>)

\* The value the first line takes: merged when it is shorter than 3
\* characters, its own otherwise.
ClaimTaken(ls) ==
    IF Len(ClaimValueAt(ls, 1)) < 3 THEN ClaimMerged(ls) ELSE ClaimValueAt(ls, 1)

\* Index of the line the header loop resumes at after the first line.
ClaimResume(ls) == IF Len(ClaimValueAt(ls, 1)) < 3 THEN ClaimStop(ls) ELSE 2

\* No line from the r-th on is a header line for the field of the type.
ClaimNoLater(ls, r, type) ==
    \A j \in r..Len(ls) : ClaimField(HeaderType(Trim(ls[j]))) # ClaimField(type)

\* C20: a header line whose value is empty or shorter than 3 characters
\* takes its value joined by spaces with the following lines, up to the
\* first empty line or header line, and the merged value is cleaned; a
\* value of 3 or more characters absorbs no line; the line that ends the
\* continuation is processed, as a header line that stores its own value
\* or as the blank line before the body.  Stated for the first line of a
\* section and for fields no later header line writes again (a Subject:
\* left empty can be filled by a later line of text).
C20_Continuation ==
    ( /\ pc = "extracted" /\ extracted # <<>>
      /\ HeaderType(Trim(Split(section)[1])) # "none" ) =>
        /\ ( /\ ClaimNoLater(Split(section), ClaimResume(Split(section)),
                              HeaderType(Trim(Split(section)[1])))
             /\ HeaderType(Trim(Split(section)[1])) = "subject"
                    => cleanEmailText(ClaimTaken(Split(section))) # <<>> )
           => ClaimHolds(extracted[1], HeaderType(Trim(Split(section)[1])),
                         ClaimTaken(Split(section)))
        /\ ( /\ Len(ClaimValueAt(Split(section), 1)) < 3
             /\ ClaimStop(Split(section)) <= Len(Split(section)) )
           => /\ ( /\ HeaderType(Trim(Split(section)[ClaimStop(Split(section))]))
                          # "none"
                   /\ Len(ClaimValueAt(Split(section),
                                       ClaimStop(Split(section)))) >= 3
                   /\ ClaimNoLater(Split(section), ClaimStop(Split(section)) + 1,
                         HeaderType(Trim(Split(section)[ClaimStop(Split(section))]))) )
                 => ClaimHolds(extracted[1],
                        HeaderType(Trim(Split(section)[ClaimStop(Split(section))])),
                        ClaimValueAt(Split(section), ClaimStop(Split(section))))
              /\ ( /\ Trim(Split(section)[ClaimStop(Split(section))]) = <<>>
                   /\ HeaderType(Trim(Split(section)[1])) = "from" )
                 => extracted[1].body =
                        Trim(Join(SubSeq(Split(section),
                                         ClaimStop(Split(section)) + 1,
                                         Len(Split(section))), <<NL>>))

\* C20 witness: an empty From: value took the two lines under it, the
\* second one trimmed, and the Subject: line that ended the continuation
\* was stored.
C20_Witness ==
    /\ pc = "extracted"
    /\ section = Join(<<lFromBare, lText, lPaddedAddress, lSubject, lText>>, <<NL>>)
    /\ extracted # <<>>
    /\ extracted[1].from = <<"H","i"," ","a","@","x">>
    /\ extracted[1].subject = <<"H","e","y">>
    /\ extracted[1].body = lText

\* C20 witness of a value of 3 characters: it absorbed nothing, and the
\* line under it became the subject.
C20_WitnessLong ==
    /\ pc = "extracted"
    /\ section = Join(<<lFrom, lDecorated>>, <<NL>>)
    /\ extracted # <<>>
    /\ extracted[1].from = <<"a","@","x">>
    /\ extracted[1].subject = lDecorated

-----------------------------------------------------------------------------
(* Properties of the header block and the body, checked under SpecParts.   *)

\* Index of the first line the extractor scans: the second when the
\* first is a quote introducer.
ClaimScanStart(ls) == IF ClaimOnWroteLine(Trim(ls[1])) THEN 2 ELSE 1

\* The scanned lines that are From: header lines.
ClaimFromLines(ls) ==
    {k \in ClaimScanStart(ls)..Len(ls) : HeaderType(Trim(ls[k])) = "from"}

\* Index of the first scanned From: header line.
ClaimFirstFrom(ls) ==
    CHOOSE k \in ClaimFromLines(ls) : \A j \in ClaimFromLines(ls) : k <= j

\* The empty lines after the k-th.
ClaimBlanksAfter(ls, k) == {m \in (k + 1)..Len(ls) : Trim(ls[m]) = <<>>}

\* Index of the first empty line after the k-th.
ClaimFirstBlank(ls, k) ==
    CHOOSE m \in ClaimBlanksAfter(ls, k) : \A j \in ClaimBlanksAfter(ls, k) : m <= j

\* The section has a From: header line and then, after header lines
\* only, an empty line.
ClaimBlockEndsAtBlank(ls) ==
    /\ ClaimFromLines(ls) # {}
    /\ ClaimBlanksAfter(ls, ClaimFirstFrom(ls)) # {}
    /\ \A j \in (ClaimFirstFrom(ls) + 1)..
                 (ClaimFirstBlank(ls, ClaimFirstFrom(ls)) - 1) :
           HeaderType(Trim(ls[j])) # "none"

\* The lines i..j of ls as one text.
ClaimText(ls, i, j) == Join(SubSeq(ls, i, j), <<NL>>)

\* C21: once a From: header has been read, the first empty line ends the
\* header block: the body is the lines after it, joined with newlines and
\* trimmed, and every other field is what the lines before it give, so no
\* line after it is read as a header.  Stated for header blocks in which
\* only header lines stand between the From: line and the empty line.
C21_BlankEndsHeaders ==
    (pc = "extracted" /\ ClaimBlockEndsAtBlank(Split(section))) =>
        extracted =
            ValidOrNull(
                [ParsedFields(ClaimText(Split(section), 1,
                      ClaimFirstBlank(Split(section),
                                      ClaimFirstFrom(Split(section))) - 1))
                 EXCEPT !.body =
                    Trim(ClaimText(Split(section),
                             ClaimFirstBlank(Split(section),
                                             ClaimFirstFrom(Split(section))) + 1,
                             Len(Split(section))))])

\* C21 witness: a From: line and a Subject: line stood in the body, after
\* the empty line, and changed no field.
C21_Witness ==
    /\ pc = "extracted"
    /\ section = Join(<<lFrom, lSubject, lBlank, lSubjectOther, lFromOther>>, <<NL>>)
    /\ extracted # <<>>
    /\ extracted[1].from = <<"a","@","x">>
    /\ extracted[1].subject = <<"H","e","y">>
    /\ extracted[1].body = Join(<<lSubjectOther, lFromOther>>, <<NL>>)

\* A header line whose value has 3 characters or more.
ClaimFullHeader(ls, k) ==
    HeaderType(Trim(ls[k])) # "none" /\ Len(ClaimValueAt(ls, k)) >= 3

\* A line that is neither empty nor a header line.
ClaimTextLine(ls, k) ==
    Trim(ls[k]) # <<>> /\ HeaderType(Trim(ls[k])) = "none"

\* The section starts with a From: header and has header lines only, each
\* with a value of 3 characters or more, before its j-th line, a line of
\* text.
ClaimTextAfterHeaders(ls, j) ==
    /\ j \in 2..Len(ls)
    /\ HeaderType(Trim(ls[1])) = "from"
    /\ \A k \in 1..(j - 1) : ClaimFullHeader(ls, k)
    /\ ClaimTextLine(ls, j)

\* A Subject: header stands before the j-th line.
ClaimSubjectBefore(ls, j) ==
    \E k \in 1..(j - 1) : HeaderType(Trim(ls[k])) = "subject"

\* C22: after a From: header, a line of text becomes the subject when no
\* subject has been captured and it is shorter than 200 characters, and
\* scanning goes on: a header line under it is stored, a second line of
\* text starts the body.  When a subject exists or the line has 200
\* characters or more, the body starts at the line and the other fields
\* are those of the lines before it.
C22_UnlabeledSubject ==
    pc = "extracted" =>
        \A j \in 2..Len(Split(section)) :
            ClaimTextAfterHeaders(Split(section), j) =>
                IF /\ ~ClaimSubjectBefore(Split(section), j)
                   /\ Len(Trim(Split(section)[j])) < 200
                THEN /\ ClaimNoLater(Split(section), j + 1, "from")
                           => extracted # <<>>
                     /\ extracted # <<>> =>
                          /\ ClaimNoLater(Split(section), j + 1, "subject")
                                => extracted[1].subject = Trim(Split(section)[j])
                          /\ ( /\ j < Len(Split(section))
                               /\ ClaimFullHeader(Split(section), j + 1)
                               /\ ClaimNoLater(Split(section), j + 2,
                                     HeaderType(Trim(Split(section)[j + 1]))) )
                             => ClaimHolds(extracted[1],
                                    HeaderType(Trim(Split(section)[j + 1])),
                                    ClaimValueAt(Split(section), j + 1))
                          /\ ( /\ j < Len(Split(section))
                               /\ ClaimTextLine(Split(section), j + 1) )
                             => extracted[1].body =
                                    Trim(ClaimText(Split(section), j + 1,
                                                   Len(Split(section))))
                ELSE extracted =
                        ValidOrNull(
                            [ParsedFields(ClaimText(Split(section), 1, j - 1))
                             EXCEPT !.body =
                                Trim(ClaimText(Split(section), j,
                                               Len(Split(section))))])

\* C22 witness: a line of 199 characters became the subject, the Date:
\* line under it was read, and the next line of text started the body.
C22_Witness ==
    /\ pc = "extracted"
    /\ section = Join(<<lFrom, lToLine, lLong199, lDate, lText>>, <<NL>>)
    /\ extracted # <<>>
    /\ extracted[1].subject = lLong199
    /\ extracted[1].date = HostDateParse(<<"3","/","4">>)
    /\ extracted[1].body = lText

\* C22 witness of the other branch: a line of 200 characters started the
\* body and left the subject empty.
C22_WitnessLong ==
    /\ pc = "extracted"
    /\ section = Join(<<lFrom, lDate, lLong200, lText>>, <<NL>>)
    /\ extracted # <<>>
    /\ extracted[1].subject = <<>>
    /\ extracted[1].body = Join(<<lLong200, lText>>, <<NL>>)

\* A text as the cleaner is meant to leave it: no <mailto:ADDR>, no two
\* white-space characters in a row, none at either end.
ClaimClean(f) ==
    /\ ~HasMailtoForm(f)
    /\ \A k \in 1..(Len(f) - 1) : ~(IsWS(f[k]) /\ IsWS(f[k + 1]))
    /\ f # <<>> => ~IsWS(f[1]) /\ ~IsWS(f[Len(f)])

\* C23: the from, to, cc and subject fields of a record carry no
\* <mailto:...> decoration, no run of two or more white-space characters
\* and no white space at either end, a subject taken from a line without
\* label included.
C23_FieldsCleaned ==
    pc = "extracted" /\ extracted # <<>> =>
        /\ ClaimClean(extracted[1].from)
        /\ ClaimClean(extracted[1].to)
        /\ ClaimClean(extracted[1].cc)
        /\ ClaimClean(extracted[1].subject)

\* The text without a leading run of letters, the comma after it and the
\* white space after the comma; the text itself when it does not start so.
ClaimWithoutWeekday(s) ==
    IF \E k \in 2..Len(s) : s[k] = "," /\ \A j \in 1..(k - 1) : s[j] \in Letters
    THEN LET k == CHOOSE c \in 2..Len(s) :
                      s[c] = "," /\ \A j \in 1..(c - 1) : s[j] \in Letters
             n == CHOOSE m \in (k + 1)..(Len(s) + 1) :
                      /\ \A j \in (k + 1)..(m - 1) : IsWS(s[j])
                      /\ m = Len(s) + 1 \/ ~IsWS(s[m])
         IN  SubSeq(s, n, Len(s))
    ELSE s

\* The direct parse when it succeeds, else the parse without the weekday
\* when it succeeds, else null.
ClaimTwoPasses(s) ==
    IF HostDateParse(s) # NaNDate THEN HostDateParse(s)
    ELSE IF HostDateParse(ClaimWithoutWeekday(s)) # NaNDate
         THEN HostDateParse(ClaimWithoutWeekday(s))
    ELSE NullDate

\* C25: for a non-empty text parseFlexibleDate returns the direct parse
\* when it succeeds, else the parse of the text without its leading
\* weekday when it succeeds, else null: the third pass, when reached, adds
\* nothing.
C25_ThirdPassRedundant ==
    pc = "parsed" /\ text # <<>> => parsed = ClaimTwoPasses(text)

\* C25 witness: the direct parse failed and the parse without the weekday
\* succeeded.
C25_Witness ==
    /\ pc = "parsed"
    /\ HostDateParse(text) = NaNDate
    /\ ClaimWithoutWeekday(text) # text
    /\ parsed = HostDateParse(ClaimWithoutWeekday(text))
    /\ parsed \notin {NaNDate, NullDate}

\* C25 witness of the third pass: a text with a weekday and a second
\* comma, which neither parse accepts, gave null.
C25_WitnessThird ==
    /\ pc = "parsed"
    /\ ClaimWithoutWeekday(text) # text
    /\ \E k \in 1..Len(ClaimWithoutWeekday(text)) :
          ClaimWithoutWeekday(text)[k] = ","
    /\ HostDateParse(text) = NaNDate
    /\ HostDateParse(ClaimWithoutWeekday(text)) = NaNDate
    /\ parsed = NullDate

\* The scanned header lines that write the field of the type.
ClaimWriters(ls, type) ==
    {k \in ClaimScanStart(ls)..Len(ls) :
        /\ HeaderType(Trim(ls[k])) # "none"
        /\ ClaimField(HeaderType(Trim(ls[k]))) = ClaimField(type)}

\* Index of the last line among them.
ClaimLastWriter(ls, type) ==
    CHOOSE k \in ClaimWriters(ls, type) : \A j \in ClaimWriters(ls, type) : j <= k

\* C28: in a section without a From: header line no empty line and no
\* line of text ends the scanning: every To, Cc, Date, Sent and Subject
\* line of the section is read as a header, wherever it stands, so each
\* field holds the value of its last header line (stated for values of 3
\* characters or more), and a record returned has an empty body.
C28_OnlyFromMarksHeaders ==
    ( /\ pc = "extracted" /\ extracted # <<>>
      /\ ClaimFromLines(Split(section)) = {} ) =>
        /\ extracted[1].body = <<>>
        /\ extracted[1].from = <<>>
        /\ extracted[1].to # <<>>
        /\ \A type \in {"to", "cc", "date", "subject"} :
              ( /\ ClaimWriters(Split(section), type) # {}
                /\ ClaimFullHeader(Split(section),
                                   ClaimLastWriter(Split(section), type)) )
              => ClaimHolds(extracted[1],
                     HeaderType(Trim(Split(section)[
                         ClaimLastWriter(Split(section), type)])),
                     ClaimValueAt(Split(section),
                                  ClaimLastWriter(Split(section), type)))

\* C28 witness: without a From: line, the Subject: line under an empty
\* line and a line of text, and the To: line under a line of 200
\* characters, were read, and the body is empty.
C28_Witness ==
    /\ pc = "extracted"
    /\ section = Join(<<lToLine, lBlank, lText, lSubject, lLong200, lToLead>>, <<NL>>)
    /\ extracted # <<>>
    /\ extracted[1].to = <<"l","@","y">>
    /\ extracted[1].subject = <<"H","e","y">>
    /\ extracted[1].body = <<>>

\* Number of lines of the header block the section starts with: header
\* lines with values of 3 characters or more, the first a From: line,
\* that fill the section or end at an empty line.  0 when the section
\* does not start so.
ClaimBlockLen(ls) ==
    IF \E n \in 1..Len(ls) :
          /\ \A k \in 1..n : ClaimFullHeader(ls, k)
          /\ n = Len(ls) \/ Trim(ls[n + 1]) = <<>>
    THEN CHOOSE n \in 1..Len(ls) :
          /\ \A k \in 1..n : ClaimFullHeader(ls, k)
          /\ n = Len(ls) \/ Trim(ls[n + 1]) = <<>>
    ELSE 0

\* The lines of the block that write the field of the type.
ClaimBlockWriters(ls, type) ==
    {k \in 1..ClaimBlockLen(ls) :
        ClaimField(HeaderType(Trim(ls[k]))) = ClaimField(type)}

ClaimLastInBlock(ls, type) ==
    CHOOSE k \in ClaimBlockWriters(ls, type) :
        \A j \in ClaimBlockWriters(ls, type) : j <= k

\* C29: when a header name occurs more than once in the header block, the
\* record holds the value of the last occurrence; Date: and Sent: write
\* the same field, so a later one that does not parse leaves null where a
\* date had been parsed.
C29_LastOccurrenceWins ==
    ( /\ pc = "extracted" /\ extracted # <<>>
      /\ ClaimBlockLen(Split(section)) > 0
      /\ HeaderType(Trim(Split(section)[1])) = "from" ) =>
        \A type \in {"from", "to", "cc", "date", "subject"} :
            IF ClaimBlockWriters(Split(section), type) # {}
            THEN ClaimHolds(extracted[1],
                     HeaderType(Trim(Split(section)[
                         ClaimLastInBlock(Split(section), type)])),
                     ClaimValueAt(Split(section),
                                  ClaimLastInBlock(Split(section), type)))
            ELSE ClaimHolds(extracted[1], type, <<>>)

\* C29 witness: a Sent: line that parses, then a Date: line that does
\* not: the date of the record is null.
C29_Witness ==
    /\ pc = "extracted"
    /\ section = Join(<<lFrom, lSubject, lSent, lDateBad>>, <<NL>>)
    /\ parseFlexibleDate(ClaimValueAt(Split(section), 3)) \notin {NullDate, NaNDate}
    /\ extracted # <<>>
    /\ extracted[1].date = NullDate

\* C29 witness of a name that comes back: the second From: and the second
\* Subject: are the ones kept.
C29_WitnessRepeat ==
    /\ pc = "extracted"
    /\ section = Join(<<lFrom, lSubject, lFromOther, lSubjectOther>>, <<NL>>)
    /\ extracted # <<>>
    /\ extracted[1].from = <<"z","@","y">>
    /\ extracted[1].subject = <<"O","t","h","e","r">>

-----------------------------------------------------------------------------
(* Properties of repeated calls, checked under SpecCalls.                  *)

-----------------------------------------------------------------------------
(* Properties of the .msg file parser, checked under SpecMsg.              *)

\* C12: parseMsgFile never resolves to an empty list: when the chain
\* parser returned a non-empty sequence the list is that sequence, of at
\* least 2 records, without the whole-message record; otherwise it is the
\* one-element list holding the whole-message record.
C12_NeverEmpty ==
    pc = "resolved" =>
        /\ resolved # <<>>
        /\ result # <<>> =>
              /\ resolved = result
              /\ Len(resolved) >= 2
              /\ \A k \in 1..Len(resolved) :
                    resolved[k] # WholeMessage(file[1])
        /\ result = <<>> => resolved = <<WholeMessage(file[1])>>

\* C12 witness: a file whose body is a chain resolved to the chain.
C12_Witness ==
    /\ pc = "resolved"
    /\ Len(result) >= 2
    /\ resolved = result

\* C12 witness of the other case: a body with a single message resolved to
\* the whole-message record.
C12_WitnessWhole ==
    /\ pc = "resolved"
    /\ result = <<>>
    /\ HasForwardedHeaders(file[1].data.body)
    /\ resolved = <<WholeMessage(file[1])>>

-----------------------------------------------------------------------------
(* Properties of the application and its queue, checked under SpecApp.     *)

\* C13: at most one processor invocation is in flight, for any
\* interleaving of addFiles calls, clear calls and processor completions.
C13_OneInFlight == Cardinality(inflight) <= 1

\* C14: after a Clear All the chain is empty and the queue is empty and
\* idle until new files are submitted, and the chain never holds an email
\* of a file submitted before the last clear.
C14_ClearAllResets ==
    /\ quiet =>
          /\ emailChain = <<>>
          /\ queue = <<>>
          /\ ~isProcessing
          /\ currentFile = <<>>
    /\ \A k \in 1..Len(emailChain) :
          fileEpoch[SerialOf(emailChain[k].email.sourceFile)] = epoch

\* C30: whenever a processor invocation is in flight, isActive() is true
\* and getSize() is at least 1.
C30_StatusReflectsInFlight ==
    pc = "app" /\ inflight # {} =>
        isActive(isProcessing) /\ getSize(queue, currentFile) >= 1

-----------------------------------------------------------------------------
(* Properties of the queue without clear, checked under SpecQueue.         *)

\* s is an initial part of t.
ClaimIsPrefix(s, t) == Len(s) <= Len(t) /\ s = SubSeq(t, 1, Len(s))

\* The queue is idle.
ClaimIdle == ~isProcessing /\ currentFile = <<>> /\ queue = <<>>

\* C26: when clear() is never called and every processor call settles,
\* the files handed to the processor are at all times the first of the
\* files passed to addFiles, in the same order (each once, names being
\* unique); the n-th file added is eventually handed over; and the queue
\* is idle again and again, for good once no file is added any more.
C26_FifoEventually ==
    /\ [](pc = "app" => ClaimIsPrefix(handed.started, handed.added))
    /\ \A n \in 1..MaxFiles :
          (Len(handed.added) >= n) ~> (Len(handed.started) >= n)
    /\ []<>ClaimIdle

\* C26 witness: files were handed over in the order added, after a first
\* file whose read was rejected, and the queue is idle.
C26_Witness ==
    /\ pc = "app"
    /\ Len(handed.started) >= 3
    /\ handed.started = handed.added
    /\ ~handed.started[1].readable
    /\ inflight = {}
    /\ ClaimIdle

-----------------------------------------------------------------------------
(* Properties of the email chain, checked under SpecChain.                 *)

\* The identifier of an email as the documentation states it: the ISO
\* string of its date, its subject, its sender and the first 100
\* characters of its body, joined into one string.
ClaimIdentifier(e) ==
    (IF e.date = NullDate THEN <<>> ELSE toISOString(e.date))
        \o <<"|", "|", "|">> \o e.subject
        \o <<"|", "|", "|">> \o e.from
        \o <<"|", "|", "|">>
        \o SubSeq(e.body, 1, IF Len(e.body) < 100 THEN Len(e.body) ELSE 100)

\* The emails passed to addEmail since the last clear, the last call left
\* out.
AddedEarlier == SubSeq(addedSince, 1, Len(addedSince) - 1)

AddedBefore(e) ==
    \E k \in 1..Len(AddedEarlier) :
        ClaimIdentifier(AddedEarlier[k]) = ClaimIdentifier(e)

ClaimDate(e) == IF e.date = NullDate THEN EpochInstant ELSE e.date

\* C16: getSortedEmails returns every stored email exactly once, by
\* non-decreasing date, an email without date ordered as if dated at the
\* epoch.
C16_SortedByDate ==
    /\ Len(sorted) = Len(emailChain)
    /\ \A k \in 1..Len(emailChain) :
          Cardinality({j \in 1..Len(sorted) : sorted[j] = emailChain[k].email}) = 1
    /\ \A j \in 1..(Len(sorted) - 1) :
          ClaimDate(sorted[j]) <= ClaimDate(sorted[j + 1])

\* C16 witness: emails added latest first were sorted, one without date
\* between one dated before the epoch and one dated after it.
C16_Witness ==
    /\ Len(sorted) = 3
    /\ emailChain[1].email.date = 3
    /\ emailChain[2].email.date = NullDate
    /\ emailChain[3].email.date = 1
    /\ sorted[1].date = 1
    /\ sorted[2].date = NullDate
    /\ sorted[3].date = 3

====
